---- MODULE Spec2Model ----
(***************************************************************************)
(* photosort: the sort decision pipeline (src/src/sort.rs), the replicator *)
(* strategies and their fallback chain (src/src/replicator.rs), over a     *)
(* small model of the filesystem calls they make.                          *)
(*                                                                         *)
(* A text (path, template fragment) is a sequence of one-character         *)
(* strings; a location is the sequence of the names of a directory entry   *)
(* from the root; the filesystem maps locations to entries.               *)
(***************************************************************************)
EXTENDS Integers, Sequences, FiniteSets, TLC

VARIABLES fs, sorter, chain, last, input, parsed, context, renders,
          event_filter, sources, exit_code, status

vars == <<fs, sorter, chain, last, input, parsed, context, renders,
          event_filter, sources, exit_code, status>>

(***************************************************************************)
(* Bounds                                                                  *)
(***************************************************************************)
\* longest list of strategies a chain is configured with
MaxChain == 2
\* symbolic links followed while resolving one path before giving up (ELOOP)
MaxSymlinks == 2
\* longest template text parsed, in characters, the named examples apart
MaxText == 4
\* most values inserted into one context
MaxInserts == 2

(***************************************************************************)
(* Texts and paths (std::path)                                             *)
(***************************************************************************)
Front(s) == SubSeq(s, 1, Len(s) - 1)

Last(s) == s[Len(s)]

IsAbs(p) == Len(p) > 0 /\ p[1] = "/"

\* the names between the separators of p, each one a text; empty names
\* (doubled or trailing separators) are dropped as Path::components does
RECURSIVE SplitNames(_, _, _, _)
SplitNames(p, i, cur, acc) ==
    IF i > Len(p)
    THEN IF cur = <<>> THEN acc ELSE Append(acc, cur)
    ELSE IF p[i] = "/"
         THEN SplitNames(p, i + 1, <<>>, IF cur = <<>> THEN acc ELSE Append(acc, cur))
         ELSE SplitNames(p, i + 1, Append(cur, p[i]), acc)

CompTexts(p) == SplitNames(p, 1, <<>>, <<>>)

RECURSIVE JoinChars(_)
JoinChars(t) == IF t = <<>> THEN "" ELSE Head(t) \o JoinChars(Tail(t))

Components(p) ==
    LET Names(texts) == [k \in 1..Len(texts) |-> JoinChars(texts[k])]
    IN Names(CompTexts(p))

\* PartialEq of PathBuf and Path: same root, same components
PathEq(p, q) == IsAbs(p) = IsAbs(q) /\ Components(p) = Components(q)

\* Path::parent: None when the path ends in the root or is empty
Parent(p) ==
    LET Of(comps) ==
            IF comps = <<>>
            THEN [some |-> FALSE, abs |-> IsAbs(p), comps |-> <<>>]
            ELSE [some |-> TRUE, abs |-> IsAbs(p), comps |-> Front(comps)]
    IN Of(Components(p))

\* Path::file_name
FileName(p) ==
    LET Of(texts) ==
            IF texts = <<>>
            THEN [some |-> FALSE, val |-> <<>>]
            ELSE [some |-> TRUE, val |-> Last(texts)]
    IN Of(CompTexts(p))

\* index of the last "." of a name, 0 when it has none
LastDot(n) ==
    LET dots == {i \in 1..Len(n) : n[i] = "."}
    IN IF dots = {} THEN 0 ELSE CHOOSE i \in dots : \A j \in dots : j <= i

\* Path::file_stem: the name up to its last ".", the whole name when the
\* only "." is the first character
FileStem(p) ==
    LET Of(f) ==
            IF ~f.some THEN f
            ELSE IF LastDot(f.val) <= 1 THEN f
            ELSE [some |-> TRUE, val |-> SubSeq(f.val, 1, LastDot(f.val) - 1)]
    IN Of(FileName(p))

\* Path::extension: what follows the last "." of the name
FileExtension(p) ==
    LET Of(f) ==
            IF ~f.some \/ LastDot(f.val) <= 1
            THEN [some |-> FALSE, val |-> <<>>]
            ELSE [some |-> TRUE, val |-> SubSeq(f.val, LastDot(f.val) + 1, Len(f.val))]
    IN Of(FileName(p))

\* a byte that is not UTF-8 wherever it stands in a path
InvalidByte == "0xFF"

\* Path::to_str: None when the path is not valid UTF-8
ToStr(path) ==
    IF \E i \in 1..Len(path) : path[i] = InvalidByte
    THEN [some |-> FALSE, v |-> <<>>]
    ELSE [some |-> TRUE, v |-> path]

\* the characters of a name
NameChars(n) == [i \in 1..Len(n) |-> SubSeq(n, i, i)]

(***************************************************************************)
(* The filesystem the calls of std::fs act on                              *)
(***************************************************************************)
\* the working directory relative paths are resolved from
Cwd == <<"w">>

\* the directory entries of the model
Locs ==
    { <<"w">>, <<"w", "a">>, <<"w", "b">>, <<"w", "b", "c">>,
      <<"w", "d">>, <<"w", "d", "a">>,
      <<"m">>, <<"m", "b">>, <<"m", "e">>, <<"m", "e", "a">> }

\* directories whose entries cannot be created or removed (as /proc is)
RoDirs == { <<"m">>, <<"m", "e">> }

NoLoc == <<"?">>

NoEntry == [t |-> "none", ino |-> 0, data |-> "", target |-> <<>>]

Dir == [t |-> "dir", ino |-> 0, data |-> "", target |-> <<>>]

File(i, d) == [t |-> "file", ino |-> i, data |-> d, target |-> <<>>]

Lnk(tgt) == [t |-> "lnk", ino |-> 0, data |-> "", target |-> tgt]

Loc(p) == (IF IsAbs(p) THEN <<>> ELSE Cwd) \o Components(p)

\* where the target text of a symbolic link found in directory dir leads
LinkLoc(tgt, dir) == (IF IsAbs(tgt) THEN <<>> ELSE dir) \o Components(tgt)

EntryAt(f, loc) ==
    IF loc = <<>> THEN Dir
    ELSE IF loc \in DOMAIN f THEN f[loc] ELSE NoEntry

\* every directory on the way to loc is a directory
DirOk(f, loc) ==
    /\ loc # <<>>
    /\ \A k \in 0..(Len(loc) - 1) : EntryAt(f, SubSeq(loc, 1, k)).t = "dir"

Writable(loc) == Front(loc) \notin RoDirs

\* the location a path leads to once symbolic links are followed
RECURSIVE Resolve(_, _, _)
Resolve(f, loc, fuel) ==
    IF ~DirOk(f, loc) THEN NoLoc
    ELSE IF EntryAt(f, loc).t = "lnk"
         THEN IF fuel = 0 \/ EntryAt(f, loc).target = <<>> THEN NoLoc
              ELSE Resolve(f, LinkLoc(EntryAt(f, loc).target, Front(loc)), fuel - 1)
         ELSE loc

\* fs::metadata: the entry reached through symbolic links
Stat(f, p) ==
    LET At(l) == IF l = NoLoc THEN NoEntry ELSE EntryAt(f, l)
    IN IF p = <<>> THEN NoEntry ELSE At(Resolve(f, Loc(p), MaxSymlinks))

\* fs::symlink_metadata on a location: the entry itself, links not followed
Lstat(f, loc) == IF DirOk(f, loc) THEN EntryAt(f, loc) ELSE NoEntry

\* fs::canonicalize: the location of an existing entry, links followed;
\* NoLoc when the path leads nowhere
Canonicalize(f, p) ==
    LET At(l) == IF l = NoLoc \/ EntryAt(f, l).t = "none" THEN NoLoc ELSE l
    IN IF p = <<>> THEN NoLoc ELSE At(Resolve(f, Loc(p), MaxSymlinks))

\* Path::exists
Exists(f, p) == Stat(f, p).t \in {"file", "dir"}

\* Path::is_dir
IsDir(f, p) == Stat(f, p).t = "dir"

NoErr == [kind |-> "ok", msg |-> ""]

NotFound == [kind |-> "NotFound", msg |-> "No such file or directory (os error 2)"]

PermissionDenied == [kind |-> "PermissionDenied", msg |-> "Permission denied (os error 13)"]

AlreadyExists == [kind |-> "AlreadyExists", msg |-> "File exists (os error 17)"]

IsADirectory == [kind |-> "IsADirectory", msg |-> "Is a directory (os error 21)"]

NotADirectory == [kind |-> "NotADirectory", msg |-> "Not a directory (os error 20)"]

CrossesDevices == [kind |-> "CrossesDevices", msg |-> "Invalid cross-device link (os error 18)"]

InvalidInput == [kind |-> "InvalidInput", msg |-> "the source path is neither a regular file nor a symlink to a regular file"]

Done(f, e) == [fs |-> f, err |-> e]

\* the mount a location is on; hard links do not cross mounts
Device(loc) == IF loc # <<>> /\ loc[1] = "m" THEN 1 ELSE 0

\* the smallest inode number no file of f has
NewIno(f) ==
    LET used == {f[l].ino : l \in DOMAIN f}
    IN CHOOSE n \in 1..(Cardinality(DOMAIN f) + 1) :
         n \notin used /\ \A k \in 1..(n - 1) : k \in used

\* f with data d written to inode i, under every name the inode has
WriteIno(f, i, d) ==
    [l \in DOMAIN f |-> IF f[l].t = "file" /\ f[l].ino = i THEN File(i, d) ELSE f[l]]

IsUnder(l, top) == Len(l) >= Len(top) /\ SubSeq(l, 1, Len(top)) = top

\* fs::remove_file: unlink, which never follows a symbolic link
RemoveFile(f, p) ==
    LET Unlink(loc, e) ==
            IF p = <<>> \/ e.t = "none" THEN Done(f, NotFound)
            ELSE IF e.t = "dir" THEN Done(f, IsADirectory)
            ELSE IF ~Writable(loc) THEN Done(f, PermissionDenied)
            ELSE Done([f EXCEPT ![loc] = NoEntry], NoErr)
    IN Unlink(Loc(p), Lstat(f, Loc(p)))

\* fs::remove_dir_all: a symbolic link is unlinked, a directory is removed
\* with everything below it
RemoveDirAll(f, p) ==
    LET Remove(loc, e) ==
            IF p = <<>> \/ e.t = "none" THEN Done(f, NotFound)
            ELSE IF e.t = "file" THEN Done(f, NotADirectory)
            ELSE IF ~Writable(loc) THEN Done(f, PermissionDenied)
            ELSE IF e.t = "lnk" THEN Done([f EXCEPT ![loc] = NoEntry], NoErr)
            ELSE IF \E l \in DOMAIN f :
                        IsUnder(l, loc) /\ l # loc /\ f[l].t # "none" /\ ~Writable(l)
            THEN Done(f, PermissionDenied)
            ELSE Done([l \in DOMAIN f |-> IF IsUnder(l, loc) THEN NoEntry ELSE f[l]], NoErr)
    IN Remove(Loc(p), Lstat(f, Loc(p)))

\* fs::create_dir_all on the directory at loc: the missing directories are
\* made from the top; what was made before a failure stays
RECURSIVE MakeDirs(_, _, _)
MakeDirs(f, loc, k) ==
    IF k > Len(loc) THEN Done(f, NoErr)
    ELSE LET d == SubSeq(loc, 1, k)
             e == EntryAt(f, d)
         IN IF e.t = "dir" THEN MakeDirs(f, loc, k + 1)
            ELSE IF e.t # "none"
                 THEN Done(f, IF k = Len(loc) THEN AlreadyExists ELSE NotADirectory)
            ELSE IF ~Writable(d) \/ d \notin DOMAIN f THEN Done(f, PermissionDenied)
            ELSE MakeDirs([f EXCEPT ![d] = Dir], loc, k + 1)

\* fs::create_dir_all(parent) for a parent as Path::parent returns it; the
\* empty path is accepted and nothing is made
CreateDirAll(f, par) ==
    IF ~par.abs /\ par.comps = <<>> THEN Done(f, NoErr)
    ELSE MakeDirs(f, IF par.abs THEN par.comps ELSE Cwd \o par.comps, 1)

\* open(dst, O_WRONLY | O_CREAT | O_TRUNC) then write d: symbolic links are
\* followed, an existing file is truncated whatever it holds; srcIno is the
\* inode being read from (0 for none): truncating it loses what was to be read
WriteFile(f, dst, d, srcIno) ==
    LET Open(dl) ==
            LET e == EntryAt(f, dl)
            IN IF dl = NoLoc \/ dl \notin DOMAIN f THEN Done(f, NotFound)
               ELSE IF e.t = "dir" THEN Done(f, IsADirectory)
               ELSE IF ~Writable(dl) THEN Done(f, PermissionDenied)
               ELSE IF e.t = "file"
                    THEN Done(WriteIno(f, e.ino, IF e.ino = srcIno THEN "" ELSE d), NoErr)
               ELSE Done([f EXCEPT ![dl] = File(NewIno(f), d)], NoErr)
    IN Open(IF dst = <<>> THEN NoLoc ELSE Resolve(f, Loc(dst), MaxSymlinks))

\* fs::copy: the source is opened first (through symbolic links) and must
\* be a regular file
Copy(f, src, dst) ==
    LET From(s) ==
            IF s.t = "none" THEN Done(f, NotFound)
            ELSE IF s.t = "dir" THEN Done(f, InvalidInput)
            ELSE WriteFile(f, dst, s.data, s.ino)
    IN From(Stat(f, src))

\* fs::hard_link: link(2) on the entry named by src itself
HardLink(f, src, dst) ==
    LET Link(sl, se, dl) ==
            IF src = <<>> \/ se.t = "none" THEN Done(f, NotFound)
            ELSE IF se.t = "dir" THEN Done(f, PermissionDenied)
            ELSE IF dst = <<>> \/ ~DirOk(f, dl) \/ dl \notin DOMAIN f THEN Done(f, NotFound)
            ELSE IF EntryAt(f, dl).t # "none" THEN Done(f, AlreadyExists)
            ELSE IF ~Writable(dl) THEN Done(f, PermissionDenied)
            ELSE IF Device(sl) # Device(dl) THEN Done(f, CrossesDevices)
            ELSE Done([f EXCEPT ![dl] = se], NoErr)
    IN Link(Loc(src), Lstat(f, Loc(src)), Loc(dst))

\* symlink::symlink_file: symlink(2), the target text is stored as given
SymlinkFile(f, src, dst) ==
    LET Link(dl) ==
            IF src = <<>> \/ dst = <<>> \/ ~DirOk(f, dl) \/ dl \notin DOMAIN f
            THEN Done(f, NotFound)
            ELSE IF EntryAt(f, dl).t # "none" THEN Done(f, AlreadyExists)
            ELSE IF ~Writable(dl) THEN Done(f, PermissionDenied)
            ELSE Done([f EXCEPT ![dl] = Lnk(src)], NoErr)
    IN Link(Loc(dst))

(***************************************************************************)
(* Replicators (src/src/replicator.rs)                                     *)
(***************************************************************************)
NONE_REPLICATE_ERR_MSG == "none replicator reached: replicate failed"

\* NoneReplicator::replicate_error
NoneReplicateError == [kind |-> "Unsupported", msg |-> NONE_REPLICATE_ERR_MSG]

\* a sentinel that reports success
NoneReplicateOk(f, src, dst) == Done(f, NoErr)

\* NoneReplicator::replicate
NoneReplicate(f, src, dst) == Done(f, NoneReplicateError)

\* SoftLinkReplicator::replicate
SoftLinkReplicate(f, src, dst) == SymlinkFile(f, src, dst)

\* HardLinkReplicator::replicate
HardLinkReplicate(f, src, dst) == HardLink(f, src, dst)

\* CopyReplicator::replicate
CopyReplicate(f, src, dst) == Copy(f, src, dst)

Panicked == [kind |-> "panic", msg |-> "called Result::unwrap on an Err value"]

\* the first closure of tests::replicator_with_fallback
Mock1Replicate(f, src, dst) ==
    IF ~Exists(f, dst) THEN WriteFile(f, dst, "foo", 0)
    ELSE Done(f, [kind |-> "Unsupported", msg |-> "replictor1 error"])

\* the second closure of tests::replicator_with_fallback; file_content_is
\* unwraps the result of opening dst
Mock2Replicate(f, src, dst) ==
    LET On(e) ==
            IF e.t # "file" THEN Done(f, Panicked)
            ELSE IF e.data # "bar" THEN WriteFile(f, dst, "bar", 0)
            ELSE Done(f, [kind |-> "Unsupported", msg |-> "replictor2 error"])
    IN On(Stat(f, dst))

\* a strategy that is not a chain
Strategy(k) == [t |-> k]

NoneReplicator == Strategy("none")

\* ReplicatorWithFallback::new
ReplicatorWithFallback(inner, fallback) == [t |-> "fallback", inner |-> inner, fallback |-> fallback]

\* Replicator::kind, as Display writes it
RECURSIVE Kind(_)
Kind(r) ==
    IF r.t = "fallback" THEN Kind(r.inner)
    ELSE IF r.t \in {"mock1", "mock2"} THEN "none"
    ELSE r.t

\* a from_iter that ends the chain in its last strategy, without sentinel
RECURSIVE FromIterNoSentinel(_)
FromIterNoSentinel(list) ==
    IF list = <<>> THEN NoneReplicator
    ELSE IF Len(list) = 1 THEN Head(list)
    ELSE ReplicatorWithFallback(Head(list), FromIterNoSentinel(Tail(list)))

\* FromIterator<Box<dyn Replicator>> for Box<dyn Replicator>
RECURSIVE FromIter(_)
FromIter(list) ==
    IF list = <<>> THEN NoneReplicator
    ELSE ReplicatorWithFallback(Head(list), FromIter(Tail(list)))

\* FromIterator<ReplicatorKind>: each kind is boxed by From<ReplicatorKind>
FromKinds(kinds) == FromIter([k \in 1..Len(kinds) |-> Strategy(kinds[k])])


\* the replicate of one strategy
StrategyReplicate(k, f, src, dst) ==
    CASE k = "none" -> NoneReplicate(f, src, dst)
      [] k = "copy" -> CopyReplicate(f, src, dst)
      [] k = "hardlink" -> HardLinkReplicate(f, src, dst)
      [] k = "softlink" -> SoftLinkReplicate(f, src, dst)
      [] k = "mock1" -> Mock1Replicate(f, src, dst)
      [] k = "mock2" -> Mock2Replicate(f, src, dst)

\* the error of a chain whose inner strategy and fallback both failed
ReplicatorFallbackError(kind, err, fallback_err) ==
    [kind |-> "Other", msg |-> kind \o " replicator: " \o err.msg \o ", " \o fallback_err.msg]

\* what ReplicatorWithFallback::replicate returns from the outcome a of its
\* inner strategy and the outcome b of its fallback
FallbackOutcome(r, a, b) ==
    IF b.err = NoErr \/ b.err = Panicked
    THEN [fs |-> b.fs, err |-> b.err, attempts |-> a.attempts \o b.attempts]
    ELSE [fs |-> b.fs, err |-> ReplicatorFallbackError(Kind(r), a.err, b.err),
          attempts |-> a.attempts \o b.attempts]

\* an inner strategy whose success is never seen
InnerSucceededNever(a) == FALSE

\* line 190 of ReplicatorWithFallback::replicate: the inner strategy
\* succeeded and the fallback is left alone
InnerSucceeded(a) == a.err = NoErr

\* Replicator::replicate of any replicator: the filesystem after it, its
\* error, and the strategies it attempted, in order, each with its error
RECURSIVE Replicate(_, _, _, _)
Replicate(r, f, src, dst) ==
    LET One(o) ==
            [fs |-> o.fs, err |-> o.err,
             attempts |-> <<[kind |-> r.t, err |-> o.err, before |-> f, after |-> o.fs]>>]
        OrElse(a) ==
            IF InnerSucceeded(a) \/ a.err = Panicked THEN a
            ELSE FallbackOutcome(r, a, Replicate(r.fallback, a.fs, src, dst))
    IN IF r.t # "fallback"
       THEN One(StrategyReplicate(r.t, f, src, dst))
       ELSE OrElse(Replicate(r.inner, f, src, dst))

\* the strategies of a replicator, flattened in the order they are held
RECURSIVE Strategies(_)
Strategies(r) ==
    IF r.t = "fallback" THEN Strategies(r.inner) \o Strategies(r.fallback)
    ELSE <<r.t>>

\* the error of visit_seq on a sequence without elements
EmptySeqError ==
    [kind |-> "Deserialize",
     msg |-> "no values in seq, expecting at least one replicator"]

\* the loop of visit_seq from the k-th element: each further element wraps
\* the replicator built so far, which becomes its fallback
RECURSIVE VisitSeqLoop(_, _, _)
VisitSeqLoop(kinds, k, next) ==
    IF k > Len(kinds) THEN next
    ELSE VisitSeqLoop(kinds, k + 1, ReplicatorWithFallback(Strategy(kinds[k]), next))

\* ReplicatorVisitor::visit_seq: the first element is deserialized alone by
\* visit_str, the others are wrapped around it
VisitSeq(kinds) ==
    IF kinds = <<>>
    THEN [ok |-> FALSE, replicator |-> NoneReplicator, err |-> EmptySeqError]
    ELSE [ok |-> TRUE, replicator |-> VisitSeqLoop(kinds, 2, Strategy(kinds[1])),
          err |-> NoErr]

(***************************************************************************)
(* Template rendering, as sort_file uses it                                *)
(***************************************************************************)
Str(text) == [t |-> "String", v |-> text]

Var(name) == [t |-> "Variable", v |-> name]

\* Sorter::prepare_template_ctx: the variables of a source path; a name,
\* stem or extension the path does not have is not inserted
PrepareTemplateCtx(path) ==
    LET Inserted(vals) == [n \in {m \in DOMAIN vals : vals[m].some} |-> vals[n].val]
    IN Inserted([n \in {"file.path", "file.name", "file.stem", "file.extension"} |->
                    CASE n = "file.path" -> [some |-> TRUE, val |-> path]
                      [] n = "file.name" -> FileName(path)
                      [] n = "file.stem" -> FileStem(path)
                      [] n = "file.extension" -> FileExtension(path)])

\* Template::render from token i on, result being what is rendered so far
RECURSIVE RenderFrom(_, _, _, _)
RenderFrom(tokens, ctx, i, result) ==
    IF i > Len(tokens) THEN [ok |-> TRUE, path |-> result]
    ELSE IF tokens[i].t = "String"
         THEN RenderFrom(tokens, ctx, i + 1, result \o tokens[i].v)
    ELSE IF tokens[i].v \in DOMAIN ctx
         THEN RenderFrom(tokens, ctx, i + 1, result \o ctx[tokens[i].v])
    ELSE [ok |-> FALSE, err |-> [t |-> "UndefinedVariable", name |-> tokens[i].v]]

Render(tokens, ctx) == RenderFrom(tokens, ctx, 1, <<>>)

(***************************************************************************)
(* Template parsing (src/src/template/mod.rs).  A text is a sequence of    *)
(* characters; the parser counts characters and slices by bytes.           *)
(***************************************************************************)
\* the character of the alphabet that takes two bytes in UTF-8 (U+00E9)
TwoByteChar == "U+00E9"

\* char::len_utf8
Width(c) == IF c = TwoByteChar THEN 2 ELSE 1

\* the byte offset of the end of the first k characters of s
RECURSIVE ByteOffset(_, _)
ByteOffset(s, k) == IF k = 0 THEN 0 ELSE ByteOffset(s, k - 1) + Width(s[k])

\* str::len: the length in bytes
ByteLen(s) == ByteOffset(s, Len(s))

\* str::is_char_boundary
IsCharBoundary(s, b) == \E k \in 0..Len(s) : ByteOffset(s, k) = b

\* &s[a..b]: the characters between two byte offsets; indexing panics when
\* an offset is past the end, inside a character, or the range is reversed
Slice(s, a, b) ==
    LET Chars(n) == CHOOSE k \in 0..Len(s) : ByteOffset(s, k) = n
    IN IF a <= b /\ IsCharBoundary(s, a) /\ IsCharBoundary(s, b)
       THEN [ok |-> TRUE, v |-> SubSeq(s, Chars(a) + 1, Chars(b))]
       ELSE [ok |-> FALSE, v |-> <<>>]

\* Option::None of the two start indices of from_str
None == -1

UnamedVariable(i) == [t |-> "UnamedVariable", index |-> i]

UnclosedVariable(i) == [t |-> "UnclosedVariable", index |-> i]

\* the results of from_str: a template, a ParseError, or a panic
Parsed(tokens) == [t |-> "Ok", tokens |-> tokens]

ParseFailed(err) == [t |-> "Err", err |-> err]

ParsePanicked == [t |-> "Panic"]

\* Token::String of a slice, Token::Variable of a slice
StringToken(sl) == Str(sl.v)

VariableToken(sl) == Var(JoinChars(sl.v))

\* an end of from_str that leaves out the literal the text ends with
FromStrEndNoLastLiteral(s, char_count, tokens, variable_start_index, string_start_index) ==
    IF string_start_index # None
    THEN Parsed(tokens)
    ELSE IF variable_start_index # None
         THEN ParseFailed(UnclosedVariable(ByteLen(s) - 1))
    ELSE IF tokens = <<>> /\ s # <<>>
         THEN Parsed(Append(tokens, Str(s)))
    ELSE Parsed(tokens)

\* lines 113-125 of from_str: what is done once the characters are consumed
FromStrEnd(s, char_count, tokens, variable_start_index, string_start_index) ==
    LET Last_(sl) == IF sl.ok THEN Parsed(Append(tokens, StringToken(sl))) ELSE ParsePanicked
    IN IF string_start_index # None
       THEN IF string_start_index < char_count - 1
            THEN Last_(Slice(s, string_start_index, ByteLen(s)))
            ELSE Parsed(tokens)
       ELSE IF variable_start_index # None
            THEN ParseFailed(UnclosedVariable(ByteLen(s) - 1))
       ELSE IF tokens = <<>> /\ s # <<>>
            THEN Parsed(Append(tokens, Str(s)))
       ELSE Parsed(tokens)

\* lines 89-111 of from_str: the loop over the characters, i being the
\* index of the character looked at (from 0)
RECURSIVE FromStrLoop(_, _, _, _, _, _)
FromStrLoop(s, i, char_count, tokens, variable_start_index, string_start_index) ==
    LET Literal(sl) ==
            IF ~sl.ok THEN ParsePanicked
            ELSE FromStrLoop(s, i + 1, char_count + 1,
                             IF string_start_index # i
                             THEN Append(tokens, StringToken(sl)) ELSE tokens,
                             i + 1, None)
        Variable(sl) ==
            IF ~sl.ok THEN ParsePanicked
            ELSE FromStrLoop(s, i + 1, char_count + 1,
                             Append(tokens, VariableToken(sl)), None, i + 1)
    IN IF i >= Len(s)
       THEN FromStrEnd(s, char_count, tokens, variable_start_index, string_start_index)
       ELSE IF s[i + 1] # ":"
            THEN FromStrLoop(s, i + 1, char_count + 1, tokens,
                             variable_start_index, string_start_index)
       ELSE IF string_start_index # None
            THEN Literal(IF string_start_index # i
                         THEN Slice(s, string_start_index, i)
                         ELSE [ok |-> TRUE, v |-> <<>>])
       ELSE IF variable_start_index # None
            THEN IF variable_start_index = i
                 THEN ParseFailed(UnamedVariable(i))
                 ELSE Variable(Slice(s, variable_start_index, i))
       ELSE FromStrLoop(s, i + 1, char_count + 1, tokens,
                        variable_start_index, string_start_index)

\* Template::from_str
FromStr(s) == FromStrLoop(s, 0, 1, <<>>, None, 0)

(***************************************************************************)
(* The variable context and its template values                            *)
(* (src/src/template/context.rs, src/src/template/variables)               *)
(***************************************************************************)
\* Context::default: no name, no value
ContextDefault == [variables |-> <<>>, template_values |-> <<>>]

NoValue == [some |-> FALSE]

\* Context::get: the value a name is bound to, if any
ContextGet(ctx, key) ==
    IF key \notin DOMAIN ctx.variables THEN NoValue
    ELSE IF ctx.variables[key] + 1 > Len(ctx.template_values) THEN NoValue
    ELSE [some |-> TRUE, value |-> ctx.template_values[ctx.variables[key] + 1]]

\* an insert that binds the first key only
ContextInsertFirstKey(ctx, keys, value) ==
    IF keys = <<>> THEN [ok |-> FALSE, ctx |-> ctx]
    ELSE [ok |-> TRUE,
          ctx |-> [variables |->
                       [k \in DOMAIN ctx.variables \cup {keys[1]} |->
                           IF keys[1] = k
                           THEN Len(ctx.template_values)
                           ELSE ctx.variables[k]],
                   template_values |-> Append(ctx.template_values, value)]]

\* Context::insert: the value is pushed and every key bound to its index;
\* an empty list of keys fails the assertion before anything is changed
ContextInsert(ctx, keys, value) ==
    IF keys = <<>> THEN [ok |-> FALSE, ctx |-> ctx]
    ELSE [ok |-> TRUE,
          ctx |-> [variables |->
                       [k \in DOMAIN ctx.variables \cup {keys[j] : j \in 1..Len(keys)} |->
                           IF \E j \in 1..Len(keys) : keys[j] = k
                           THEN Len(ctx.template_values)
                           ELSE ctx.variables[k]],
                   template_values |-> Append(ctx.template_values, value)]]

\* the template values: a String, &str or OsString; a PathBuf; the value of
\* tests::variable_render_error; the providers of template/variables
StringValue(text) == [t |-> "String", v |-> text]

PathBufValue(path) == [t |-> "PathBuf", v |-> path]

AlwaysFailTemplateValue == [t |-> "AlwaysFail"]

FileTemplateValue == [t |-> "File"]

FileMetadataTemplateValue == [t |-> "FileMetadata"]

DateValue == [t |-> "Date"]

\* context::Result, and a panic of the provider
ValueOk(text) == [t |-> "Ok", v |-> text]

ValueErr(err) == [t |-> "Err", err |-> err]

ValuePanic == [t |-> "Panic"]

\* missing_variable
MissingVariable(name) == [t |-> "MissingVariable", name |-> name]

\* the decimal digits
Digits == <<"0", "1", "2", "3", "4", "5", "6", "7", "8", "9">>

IsDigit(c) == \E n \in 1..Len(Digits) : Digits[n] = c

DigitValue(c) == (CHOOSE n \in 1..Len(Digits) : Digits[n] = c) - 1

\* the number a text of digits stands for
RECURSIVE Number(_)
Number(t) == IF t = <<>> THEN 0 ELSE Number(Front(t)) * 10 + DigitValue(Last(t))

\* {:0w} of format! and %Y, %m, %d of chrono: the digits of n, with zeros
\* in front up to the width w
RECURSIVE Pad(_, _)
Pad(n, w) ==
    IF w <= 1 /\ n < 10 THEN <<Digits[n + 1]>>
    ELSE Append(Pad(n \div 10, w - 1), Digits[(n % 10) + 1])

\* a calendar date
Date(year, month, day) == [year |-> year, month |-> month, day |-> day]

\* format("%Y-%m-%d") of chrono; format!("{:04}-{:02}-{:02}") of exif.rs
FormatDate(date) == Pad(date.year, 4) \o <<"-">> \o Pad(date.month, 2) \o <<"-">> \o Pad(date.day, 2)

\* the text of one name of a date provider: the date or one of its facets
DateFacet(date, facet) ==
    CASE facet = "date" -> FormatDate(date)
      [] facet = "year" -> Pad(date.year, 4)
      [] facet = "month" -> Pad(date.month, 2)
      [] facet = "day" -> Pad(date.day, 2)

\* the days of a month of the proleptic Gregorian calendar
DaysIn(year, month) ==
    IF month \in {4, 6, 9, 11} THEN 30
    ELSE IF month # 2 THEN 31
    ELSE IF year % 4 = 0 /\ (year % 100 # 0 \/ year % 400 = 0) THEN 29
    ELSE 28

\* NaiveDate::parse_from_str(text, "%Y%m%d") on the eight digits the
\* pattern leaves: four digits of year, two of month, two of day, and the
\* date has to exist
ParseFromStr(text) ==
    LET Checked(d) ==
            IF d.month \in 1..12 /\ d.day \in 1..DaysIn(d.year, d.month)
            THEN [ok |-> TRUE, date |-> d]
            ELSE [ok |-> FALSE, date |-> d]
    IN Checked(Date(Number(SubSeq(text, 1, 4)), Number(SubSeq(text, 5, 6)),
                    Number(SubSeq(text, 7, 8))))

\* the character at an index of a text, none past its end
CharAt(t, i) == IF i \in 1..Len(t) THEN t[i] ELSE ""

\* (-|_)
IsDateSeparator(c) == c \in {"-", "_"}

\* (0[1-9]|1[0-2]) at an index
MonthAt(t, i) ==
    \/ CharAt(t, i) = "0" /\ IsDigit(CharAt(t, i + 1)) /\ CharAt(t, i + 1) # "0"
    \/ CharAt(t, i) = "1" /\ CharAt(t, i + 1) \in {"0", "1", "2"}

\* ([0-2][1-9]|3[0-1]) at an index
DayAt(t, i) ==
    \/ CharAt(t, i) \in {"0", "1", "2"} /\ IsDigit(CharAt(t, i + 1)) /\ CharAt(t, i + 1) # "0"
    \/ CharAt(t, i) = "3" /\ CharAt(t, i + 1) \in {"0", "1"}

\* the index that follows an optional separator at index i
AfterSeparator(t, i) == IF IsDateSeparator(CharAt(t, i)) THEN i + 1 ELSE i

\* DATE_REGEX matched from index i: the index of its last character, 0
\* when it does not match there; a separator that is there is always
\* taken, as no month or day starts with one
DateRegexEnd(t, i) ==
    LET Day(k) == IF DayAt(t, k) THEN k + 1 ELSE 0
        Month(j) == IF MonthAt(t, j) THEN Day(AfterSeparator(t, j + 2)) ELSE 0
    IN IF \A k \in i..(i + 3) : IsDigit(CharAt(t, k))
       THEN Month(AfterSeparator(t, i + 4))
       ELSE 0

\* DATE_REGEX.find: the leftmost match
DateRegexFind(t) ==
    LET starts == { i \in 1..Len(t) : DateRegexEnd(t, i) # 0 }
        First(i) == [some |-> TRUE, v |-> SubSeq(t, i, DateRegexEnd(t, i))]
    IN IF starts = {} THEN [some |-> FALSE, v |-> <<>>]
       ELSE First(CHOOSE i \in starts : \A j \in starts : i <= j)

\* FileNameDateError
DateNotFound == [t |-> "DateNotFound"]

NotUTF8String == [t |-> "NotUTF8String"]

ParseError == [t |-> "ParseError"]

\* FileTemplateValue::filename_naivedate, path being what filepathbuf
\* returns: the whole path is searched
FilenameNaivedate(path) ==
    LET Dated(r) ==
            IF r.ok THEN [ok |-> TRUE, date |-> r.date, err |-> NoErr]
            ELSE [ok |-> FALSE, date |-> r.date, err |-> ParseError]
        Found(mt) ==
            IF ~mt.some THEN [ok |-> FALSE, date |-> Date(0, 0, 0), err |-> DateNotFound]
            ELSE Dated(ParseFromStr(SelectSeq(mt.v, LAMBDA c : ~IsDateSeparator(c))))
        Text(s) ==
            IF ~s.some THEN [ok |-> FALSE, date |-> Date(0, 0, 0), err |-> NotUTF8String]
            ELSE Found(DateRegexFind(s.v))
    IN Text(ToStr(path))

\* the creation time fs::metadata reports; the model has one day
CreationDateTime == Date(2022, 8, 19)

\* the creation time formatted %Y-%m-%d
CreationDate == FormatDate(CreationDateTime)

\* the DateTime field of the metadata container of the model
ExifDateTime == Date(2021, 3, 4)

\* what Reader::read_from_container finds in a file, from its content: a
\* container with the DateTime field, one without it, or no container
ReadFromContainer(data) ==
    CASE data = "J" -> [t |-> "Exif", datetime |-> [some |-> TRUE, date |-> ExifDateTime]]
      [] data = "K" -> [t |-> "Exif", datetime |-> [some |-> FALSE, date |-> Date(0, 0, 0)]]
      [] OTHER -> [t |-> "NotFound"]

\* ExifTemplateValue::new
ExifTemplateValue(exif) == [t |-> "Exif", exif |-> exif]

\* ExifError::MissingField
MissingField(field) == [t |-> "MissingField", field |-> field]

\* the facet a name of a provider asks for: what follows the name of the
\* date
FacetOf(name) ==
    CASE name \in {"exif.date.year", "file.md.creation_date.year", "file.name.date.year"} -> "year"
      [] name \in {"exif.date.month", "file.md.creation_date.month", "file.name.date.month"} -> "month"
      [] name \in {"exif.date.day", "file.md.creation_date.day", "file.name.date.day"} -> "day"
      [] OTHER -> "date"

\* the candidates of the Date provider for each of its names
DateCandidates(name) ==
    CASE name = "date" -> <<"exif.date", "file.md.creation_date">>
      [] name = "date.year" -> <<"exif.date.year", "file.md.creation_date.year">>
      [] name = "date.month" -> <<"exif.date.month", "file.md.creation_date.month">>
      [] name = "date.day" -> <<"exif.date.day", "file.md.creation_date.day">>
      [] OTHER -> <<>>

\* Path::file_name, file_stem, extension of the file template value: the
\* empty text when the path has none
Facet(part) == ValueOk(IF part.some THEN part.val ELSE <<>>)

\* Date::get_one_of from the k-th key on: the first candidate that is
\* registered and renders; TemplateValue::render of a value under a name, f
\* being the filesystem the providers read
RECURSIVE GetOneOf(_, _, _, _), ValueRender(_, _, _, _)

\* a get_one_of that gives up when its first candidate fails
GetOneOfFirstOnly(ctx, keys, k, f) ==
    LET Candidate(got) ==
            IF got.some THEN ValueRender(got.value, keys[k], ctx, f)
            ELSE ValueErr([t |-> "GetOneOfErr", keys |-> keys])
        Tried(r) ==
            IF r.t \in {"Ok", "Panic"} THEN r
            ELSE ValueErr([t |-> "GetOneOfErr", keys |-> keys])
    IN IF k > Len(keys) THEN ValueErr([t |-> "GetOneOfErr", keys |-> keys])
       ELSE Tried(Candidate(ContextGet(ctx, keys[k])))

GetOneOf(ctx, keys, k, f) ==
    LET Tried(r) ==
            IF r.t \in {"Ok", "Panic"} THEN r ELSE GetOneOf(ctx, keys, k + 1, f)
        Candidate(got) ==
            IF got.some THEN ValueRender(got.value, keys[k], ctx, f)
            ELSE ValueErr(MissingVariable(keys[k]))
    IN IF k > Len(keys) THEN ValueErr([t |-> "GetOneOfErr", keys |-> keys])
       ELSE Tried(Candidate(ContextGet(ctx, keys[k])))

ValueRender(value, name, ctx, f) ==
    LET \* ctx.get_or_err(":file.path")?.render("", ctx)
        FilePath(got) ==
            IF got.some THEN ValueRender(got.value, "", ctx, f)
            ELSE ValueErr(MissingVariable(":file.path"))
        \* filename_date and its facets
        Dated(r) ==
            IF r.ok THEN ValueOk(DateFacet(r.date, FacetOf(name))) ELSE ValueErr(r.err)
        \* FileTemplateValue::filepathbuf unwraps the private path
        OfPath(r) ==
            IF r.t # "Ok" THEN ValuePanic
            ELSE CASE name = "file.name" -> Facet(FileName(r.v))
                   [] name = "file.stem" -> Facet(FileStem(r.v))
                   [] name = "file.extension" -> Facet(FileExtension(r.v))
                   [] OTHER -> Dated(FilenameNaivedate(r.v))
        \* FileMetadataTemplateValue::creation_datetime and the facet of it
        Created(r) ==
            IF r.t # "Ok" THEN r
            ELSE IF Stat(f, r.v).t = "none" THEN ValueErr([t |-> "Read", cause |-> NotFound])
            ELSE ValueOk(DateFacet(CreationDateTime, FacetOf(name)))
        \* ExifTemplateValue::datetime and the facet of it
        Taken(datetime) ==
            IF datetime.some THEN ValueOk(DateFacet(datetime.date, FacetOf(name)))
            ELSE ValueErr(MissingField("DateTime"))
    IN CASE value.t = "String" -> ValueOk(value.v)
         [] value.t = "PathBuf" -> ValueOk(value.v)
         [] value.t = "AlwaysFail" -> ValueErr([t |-> "SimpleError", msg |-> "an error occurred"])
         [] value.t = "File" ->
              IF name = "file.path" THEN FilePath(ContextGet(ctx, ":file.path"))
              ELSE IF name \in {"file.name", "file.stem", "file.extension",
                                "file.name.date", "file.name.date.year",
                                "file.name.date.month", "file.name.date.day"}
                   THEN OfPath(FilePath(ContextGet(ctx, ":file.path")))
              ELSE ValuePanic
         [] value.t = "FileMetadata" ->
              IF name \in {"file.md.creation_date", "file.md.creation_date.year",
                           "file.md.creation_date.month", "file.md.creation_date.day"}
              THEN Created(FilePath(ContextGet(ctx, ":file.path")))
              ELSE ValuePanic
         [] value.t = "Exif" ->
              IF name \in {"exif.date", "exif.date.year", "exif.date.month", "exif.date.day"}
              THEN Taken(value.exif.datetime)
              ELSE ValuePanic
         [] value.t = "Date" ->
              IF DateCandidates(name) # <<>>
              THEN GetOneOf(ctx, DateCandidates(name), 1, f)
              ELSE ValuePanic

(***************************************************************************)
(* Template rendering (src/src/template/mod.rs)                            *)
(***************************************************************************)
UndefinedVariable(name) == [t |-> "UndefinedVariable", name |-> name]

VariableRender(name, cause) == [t |-> "VariableRender", name |-> name, cause |-> cause]

\* the results of render: a path, a RenderError, or the panic of a
\* provider; invoked lists the names whose provider render called, in order
RenderedPath(path, invoked) == [t |-> "Ok", path |-> path, invoked |-> invoked]

RenderFailed(err, invoked) == [t |-> "Err", err |-> err, invoked |-> invoked]

RenderPanicked(invoked) == [t |-> "Panic", invoked |-> invoked]

\* a render that leaves out what a failing provider should have given
RECURSIVE TemplateRenderFromLenient(_, _, _, _, _, _)
TemplateRenderFromLenient(tokens, ctx, f, i, result, invoked) ==
    LET Pushed(r) ==
            IF r.t = "Panic" THEN RenderPanicked(Append(invoked, tokens[i].v))
            ELSE TemplateRenderFromLenient(tokens, ctx, f, i + 1,
                                    result \o (IF r.t = "Ok" THEN r.v ELSE <<>>),
                                    Append(invoked, tokens[i].v))
        Looked(got) ==
            IF got.some THEN Pushed(ValueRender(got.value, tokens[i].v, ctx, f))
            ELSE RenderFailed(UndefinedVariable(tokens[i].v), invoked)
    IN IF i > Len(tokens) THEN RenderedPath(result, invoked)
       ELSE IF tokens[i].t = "String"
            THEN TemplateRenderFromLenient(tokens, ctx, f, i + 1, result \o tokens[i].v, invoked)
       ELSE Looked(ContextGet(ctx, tokens[i].v))

\* a render that takes an unregistered name for an empty value
RECURSIVE TemplateRenderFromUndefinedEmpty(_, _, _, _, _, _)
TemplateRenderFromUndefinedEmpty(tokens, ctx, f, i, result, invoked) ==
    LET Pushed(r) ==
            IF r.t = "Panic" THEN RenderPanicked(Append(invoked, tokens[i].v))
            ELSE IF r.t = "Err"
                 THEN RenderFailed(VariableRender(tokens[i].v, r.err),
                                   Append(invoked, tokens[i].v))
            ELSE TemplateRenderFromUndefinedEmpty(tokens, ctx, f, i + 1, result \o r.v,
                                    Append(invoked, tokens[i].v))
        Looked(got) ==
            IF got.some THEN Pushed(ValueRender(got.value, tokens[i].v, ctx, f))
            ELSE TemplateRenderFromUndefinedEmpty(tokens, ctx, f, i + 1, result, invoked)
    IN IF i > Len(tokens) THEN RenderedPath(result, invoked)
       ELSE IF tokens[i].t = "String"
            THEN TemplateRenderFromUndefinedEmpty(tokens, ctx, f, i + 1,
                                                  result \o tokens[i].v, invoked)
       ELSE Looked(ContextGet(ctx, tokens[i].v))

\* a render that puts every literal before the values
RECURSIVE TemplateRenderFromLiteralsFirst(_, _, _, _, _, _)
TemplateRenderFromLiteralsFirst(tokens, ctx, f, i, result, invoked) ==
    LET Pushed(r) ==
            IF r.t = "Panic" THEN RenderPanicked(Append(invoked, tokens[i].v))
            ELSE IF r.t = "Err"
                 THEN RenderFailed(VariableRender(tokens[i].v, r.err),
                                   Append(invoked, tokens[i].v))
            ELSE TemplateRenderFromLiteralsFirst(tokens, ctx, f, i + 1, result \o r.v,
                                    Append(invoked, tokens[i].v))
        Looked(got) ==
            IF got.some THEN Pushed(ValueRender(got.value, tokens[i].v, ctx, f))
            ELSE RenderFailed(UndefinedVariable(tokens[i].v), invoked)
    IN IF i > Len(tokens) THEN RenderedPath(result, invoked)
       ELSE IF tokens[i].t = "String"
            THEN TemplateRenderFromLiteralsFirst(tokens, ctx, f, i + 1,
                                                 tokens[i].v \o result, invoked)
       ELSE Looked(ContextGet(ctx, tokens[i].v))

\* Template::render from token i on (from 1), result being what is
\* rendered so far
RECURSIVE TemplateRenderFrom(_, _, _, _, _, _)
TemplateRenderFrom(tokens, ctx, f, i, result, invoked) ==
    LET Pushed(r) ==
            IF r.t = "Panic" THEN RenderPanicked(Append(invoked, tokens[i].v))
            ELSE IF r.t = "Err"
                 THEN RenderFailed(VariableRender(tokens[i].v, r.err),
                                   Append(invoked, tokens[i].v))
            ELSE TemplateRenderFrom(tokens, ctx, f, i + 1, result \o r.v,
                                    Append(invoked, tokens[i].v))
        Looked(got) ==
            IF got.some THEN Pushed(ValueRender(got.value, tokens[i].v, ctx, f))
            ELSE RenderFailed(UndefinedVariable(tokens[i].v), invoked)
    IN IF i > Len(tokens) THEN RenderedPath(result, invoked)
       ELSE IF tokens[i].t = "String"
            THEN TemplateRenderFrom(tokens, ctx, f, i + 1, result \o tokens[i].v, invoked)
       ELSE Looked(ContextGet(ctx, tokens[i].v))

\* Template::render
TemplateRender(tokens, ctx, f) == TemplateRenderFrom(tokens, ctx, f, 1, <<>>, <<>>)

(***************************************************************************)
(* The context of a source file (prepare_template_context)                 *)
(***************************************************************************)
\* the absolute path text of a location
RECURSIVE LocPath(_)
LocPath(loc) ==
    IF loc = <<>> THEN <<>> ELSE LocPath(Front(loc)) \o <<"/">> \o NameChars(Last(loc))

ContextBuilt(ctx) == [ok |-> TRUE, ctx |-> ctx, err |-> NoErr]

ContextFailed(err) == [ok |-> FALSE, ctx |-> ContextDefault, err |-> err]

\* the panic of Option::unwrap on None
UnwrapNone == [kind |-> "Panic", msg |-> "called Option::unwrap() on a None value"]

\* a build that panicked: the context is left as it was when it did
ContextPanicked(ctx) == [ok |-> FALSE, ctx |-> ctx, err |-> UnwrapNone]

\* PrivateVariableError::AbsoluteFilePath
AbsoluteFilePath(err) == [kind |-> "AbsoluteFilePath", msg |-> err.msg]

\* file::prepare_template_context, then its metadata module
FilePrepare(ctx) ==
    ContextInsert(
        ContextInsert(ctx,
            <<"file.path", "file.name", "file.stem", "file.extension",
              "file.name.date", "file.name.date.year", "file.name.date.month",
              "file.name.date.day">>,
            FileTemplateValue).ctx,
        <<"file.md.creation_date", "file.md.creation_date",
          "file.md.creation_date", "file.md.creation_date">>,
        FileMetadataTemplateValue).ctx

\* a build that takes the lack of a container for a failure
ExifPrepareContainerRequired(ctx, f) ==
    LET Read(exif) ==
            IF exif.t # "Exif" THEN ContextFailed(NotFound)
            ELSE ContextBuilt(
                     ContextInsert(ctx,
                         <<"exif.date", "exif.date.year", "exif.date.month", "exif.date.day">>,
                         ExifTemplateValue(exif)).ctx)
        Opened(e) ==
            IF e.t = "none" THEN ContextFailed(NotFound)
            ELSE IF e.t = "dir" THEN ContextFailed(IsADirectory)
            ELSE Read(ReadFromContainer(e.data))
        Unwrapped(got) ==
            IF ~got.some THEN ContextPanicked(ctx) ELSE Opened(Stat(f, got.value.v))
    IN Unwrapped(ContextGet(ctx, ":file.path"))

\* exif::prepare_template_context: the file is opened and read; an I/O
\* error fails, a file without metadata container registers nothing, a
\* container is registered under the four names of exif
ExifPrepare(ctx, f) ==
    LET Read(exif) ==
            IF exif.t # "Exif" THEN ContextBuilt(ctx)
            ELSE ContextBuilt(
                     ContextInsert(ctx,
                         <<"exif.date", "exif.date.year", "exif.date.month", "exif.date.day">>,
                         ExifTemplateValue(exif)).ctx)
        Opened(e) ==
            IF e.t = "none" THEN ContextFailed(NotFound)
            ELSE IF e.t = "dir" THEN ContextFailed(IsADirectory)
            ELSE Read(ReadFromContainer(e.data))
        \* ctx.get(":file.path").unwrap()
        Unwrapped(got) ==
            IF ~got.some THEN ContextPanicked(ctx) ELSE Opened(Stat(f, got.value.v))
    IN Unwrapped(ContextGet(ctx, ":file.path"))

\* date::prepare_template_context
DatePrepare(ctx) ==
    ContextInsert(ctx, <<"date", "date.year", "date.month", "date.day">>, DateValue).ctx

\* variables::prepare_template_context: file, exif, date
VariablesPrepare(ctx, f) ==
    LET Exif(c) == IF c.ok THEN ContextBuilt(DatePrepare(c.ctx)) ELSE c
    IN Exif(ExifPrepare(FilePrepare(ctx), f))

\* a context seeded with the path as given when it cannot be canonicalized
PrepareTemplateContextUnchecked(f, path) ==
    LET Seeded(abs) ==
            VariablesPrepare(
                ContextInsert(ContextDefault, <<":file.path">>,
                              PathBufValue(IF abs = NoLoc THEN path ELSE LocPath(abs))).ctx, f)
    IN Seeded(Canonicalize(f, path))

\* context::prepare_template_context on a fresh context
PrepareTemplateContext(f, path) ==
    LET Seeded(abs) ==
            IF abs = NoLoc THEN ContextFailed(AbsoluteFilePath(NotFound))
            ELSE VariablesPrepare(
                     ContextInsert(ContextDefault, <<":file.path">>,
                                   PathBufValue(LocPath(abs))).ctx, f)
    IN Seeded(Canonicalize(f, path))

(***************************************************************************)
(* The sort engine (src/src/sort.rs)                                       *)
(***************************************************************************)
\* sort::Config::new; the template is the list of its tokens
Config(template, replicator, overwrite) ==
    [template |-> template, replicator |-> replicator, overwrite |-> overwrite]

Skipped(replicate_path, reason) ==
    [t |-> "Skipped", replicate_path |-> replicate_path, reason |-> reason]

Replicated(replicate_path, overwrite) ==
    [t |-> "Replicated", replicate_path |-> replicate_path, overwrite |-> overwrite]

TemplateError(err) == [t |-> "TemplateError", err |-> err]

ReplicateError(err, replicate_path) ==
    [t |-> "ReplicateError", err |-> err, replicate_path |-> replicate_path]

\* a removal failure reported as a replicate failure
OverwriteErrorAsReplicate(err, replicate_path) == ReplicateError(err, replicate_path)

OverwriteError(err, replicate_path) ==
    [t |-> "OverwriteError", err |-> err, replicate_path |-> replicate_path]

\* one filesystem call of a sort, as the log of the calls records it: the
\* call, its error, the filesystem after it, and for a replicate the
\* strategies attempted
Call(op, err, after, attempts) ==
    [op |-> op, err |-> err, after |-> after, attempts |-> attempts]

Outcome(f, result, ops) == [fs |-> f, result |-> result, ops |-> ops]

\* lines 89-96 of replicate_file: the replicator is invoked and the sort
\* result built; overwrite is the local flag of replicate_file
InvokeReplicator(cfg, f, src_path, replicate_path, overwrite, ops) ==
    LET Result(r) ==
            LET log == Append(ops, Call("replicate", r.err, r.fs, r.attempts))
            IN IF r.err # NoErr
               THEN Outcome(r.fs, ReplicateError(r.err, replicate_path), log)
               ELSE Outcome(r.fs, Replicated(replicate_path, overwrite), log)
    IN Result(Replicate(cfg.replicator, f, src_path, replicate_path))

\* a parent directory whose creation failure is dropped
EnsureParentUnchecked(cfg, f, src_path, replicate_path, overwrite, ops) ==
    LET Made(m) ==
            InvokeReplicator(cfg, m.fs, src_path, replicate_path, overwrite,
                             Append(ops, Call("create_dir_all", m.err, m.fs, <<>>)))
    IN Made(CreateDirAll(f, Parent(replicate_path)))

\* lines 82-87 of replicate_file: the parent directory is ensured, then the
\* replicator is invoked
EnsureParentThenReplicate(cfg, f, src_path, replicate_path, overwrite, ops) ==
    LET Made(parent, m) ==
            LET log == Append(ops, Call("create_dir_all", m.err, m.fs, <<>>))
            IN IF ~parent.some
               THEN InvokeReplicator(cfg, f, src_path, replicate_path, overwrite, ops)
               ELSE IF m.err # NoErr
                    THEN Outcome(m.fs, ReplicateError(m.err, replicate_path), log)
                    ELSE InvokeReplicator(cfg, m.fs, src_path, replicate_path, overwrite, log)
    IN Made(Parent(replicate_path), CreateDirAll(f, Parent(replicate_path)))

\* a removal that forgets the directory case
RemoveDestinationFileOnly(f, replicate_path) ==
    [op |-> "remove_file", out |-> RemoveFile(f, replicate_path)]

\* lines 67-73 of replicate_file: the removal of an existing destination
RemoveDestination(f, replicate_path) ==
    IF IsDir(f, replicate_path)
    THEN [op |-> "remove_dir_all", out |-> RemoveDirAll(f, replicate_path)]
    ELSE [op |-> "remove_file", out |-> RemoveFile(f, replicate_path)]

\* a same-file test that is never true
SameFileNever(replicate_path, src_path) == FALSE

\* the same-file test of replicate_file, line 56
SameFile(replicate_path, src_path) == PathEq(replicate_path, src_path)

\* a policy that overwrites whatever the setting
DecideAlwaysOverwrite(exists, overwrite) ==
    IF exists THEN "overwrite" ELSE "replicate"

\* lines 64-80 of replicate_file: what is done with the destination, from
\* whether it exists and the overwrite setting
Decide(exists, overwrite) ==
    IF ~exists THEN "replicate"
    ELSE IF overwrite THEN "overwrite"
    ELSE "skip"

\* a flag that repeats the setting
OverwriteFlagFromConfig(exists, overwrite) == overwrite

\* lines 63-66 of replicate_file: the local flag overwrite, set only inside
\* the branch of an existing destination with overwrite enabled
OverwriteFlag(exists, overwrite) == exists /\ overwrite

\* Sorter::replicate_file
ReplicateFile(cfg, f, src_path, replicate_path) ==
    LET Found(exists, rm) ==
            LET seen == <<Call("exists", NoErr, f, <<>>)>>
                todo == Decide(exists, cfg.overwrite)
                flag == OverwriteFlag(exists, cfg.overwrite)
                removed == Append(seen, Call(rm.op, rm.out.err, rm.out.fs, <<>>))
            IN IF todo = "skip"
               THEN Outcome(f, Skipped(replicate_path, "Overwrite"), seen)
               ELSE IF todo = "replicate"
                    THEN EnsureParentThenReplicate(cfg, f, src_path, replicate_path, flag, seen)
               ELSE IF rm.out.err # NoErr
                    THEN Outcome(rm.out.fs, OverwriteError(rm.out.err, replicate_path), removed)
               ELSE EnsureParentThenReplicate(cfg, rm.out.fs, src_path, replicate_path,
                                              flag, removed)
    IN IF SameFile(replicate_path, src_path)
       THEN Outcome(f, Skipped(replicate_path, "SameFile"), <<>>)
       ELSE Found(Exists(f, replicate_path), RemoveDestination(f, replicate_path))

\* a sort_file that goes on with an empty path when rendering fails
SortFileRenderUnchecked(cfg, f, src_path) ==
    LET Rendered(r) == ReplicateFile(cfg, f, src_path, IF r.ok THEN r.path ELSE <<>>)
    IN Rendered(Render(cfg.template, PrepareTemplateCtx(src_path)))

\* Sorter::sort_file
SortFile(cfg, f, src_path) ==
    LET Rendered(r) ==
            IF ~r.ok
            THEN Outcome(f, TemplateError(r.err), <<>>)
            ELSE ReplicateFile(cfg, f, src_path, r.path)
    IN Rendered(Render(cfg.template, PrepareTemplateCtx(src_path)))

\* SortError::TemplateContextError, as log_result of the binary matches it
TemplateContextError(err) == [t |-> "TemplateContextError", err |-> err]

\* sort_file of the engine that builds a Context: the context is built,
\* the template rendered with it, and the file replicated; the log starts
\* with the two steps
SortFileWithContext(cfg, f, src_path) ==
    LET Replicating(log, o) == Outcome(o.fs, o.result, log \o o.ops)
        Rendered(log, r) ==
            IF r.t = "Panic"
            THEN Outcome(f, [t |-> "Panic"], Append(log, Call("render", Panicked, f, <<>>)))
            ELSE IF r.t = "Err"
                 THEN Outcome(f, TemplateError(r.err),
                              Append(log, Call("render", r.err, f, <<>>)))
            ELSE Replicating(Append(log, Call("render", NoErr, f, <<>>)),
                             ReplicateFile(cfg, f, src_path, r.path))
        Built(c) ==
            IF ~c.ok
            THEN Outcome(f, TemplateContextError(c.err),
                         <<Call("prepare_template_context", c.err, f, <<>>)>>)
            ELSE Rendered(<<Call("prepare_template_context", NoErr, f, <<>>)>>,
                          TemplateRender(cfg.template, c.ctx, f))
    IN Built(PrepareTemplateContext(f, src_path))

(***************************************************************************)
(* The watch mode (src/src/bin/photosort/watch.rs and main.rs): what is    *)
(* done with one event of the filesystem watcher                           *)
(***************************************************************************)
\* the kinds of notify::EventKind the handlers tell from the others
CloseWrite == "Access(Close(Write))"

CreateFile == "Create(File)"

\* what the watcher hands to its callback: Ok(Event) or Err(notify::Error)
Event(kind, paths) == [t |-> "Ok", kind |-> kind, paths |-> paths]

EventErr(err) == [t |-> "Err", err |-> err]

\* Option<Regex>: a pattern is known by the texts it matches
NoRegex == [some |-> FALSE, matching |-> {}]

Regex(matching) == [some |-> TRUE, matching |-> matching]

\* Regex::is_match
IsMatch(regex, text) == text \in regex.matching

\* EventFilter::new
EventFilter(ignore_regex) == [some |-> TRUE, ignore_regex |-> ignore_regex]

MissingEventPath(event) == [t |-> "MissingEventPath", event |-> event]

MatchIgnoreRegex(path) == [t |-> "MatchIgnoreRegex", path |-> path]

FilterOk == [ok |-> TRUE]

FilterErr(reason) == [ok |-> FALSE, reason |-> reason]

\* a filter that knows no pattern
FilterWithoutRegex(filter, event) ==
    IF event.paths = <<>> THEN FilterErr(MissingEventPath(event)) ELSE FilterOk

\* EventFilter::filter
Filter(filter, event) ==
    LET Text(path) ==
            IF ~path.some THEN FilterOk
            ELSE IF filter.ignore_regex.some /\ IsMatch(filter.ignore_regex, path.v)
                 THEN FilterErr(MatchIgnoreRegex(event.paths[1]))
            ELSE FilterOk
    IN IF event.paths = <<>> THEN FilterErr(MissingEventPath(event))
       ELSE Text(ToStr(event.paths[1]))

\* EventHandlerResult and EventHandlerError
Ignored(event) == [t |-> "Ignored", event |-> event]

Sort(path, result) == [t |-> "Sort", path |-> path, result |-> result]

Filtered(reason) == [t |-> "Filtered", reason |-> reason]

RetrieveEvent(err) == [t |-> "RetrieveEvent", err |-> err]

\* what a handler did: the filesystem after it, what it returned and the
\* calls of sort_file it made, each with its source path and its result
Handled(f, result, sorts) == [fs |-> f, result |-> result, sorts |-> sorts]

\* one call of sort_file
SortCall(path, result) == [path |-> path, result |-> result]

\* EventHandler::handle_event of watch.rs
HandleEvent(filter, cfg, f, event) ==
    LET Sorted_(o) ==
            Handled(o.fs, Sort(event.paths[1], o.result),
                    <<SortCall(event.paths[1], o.result)>>)
        Passed(r) ==
            IF ~r.ok THEN Handled(f, Filtered(r.reason), <<>>)
            ELSE Sorted_(SortFile(cfg, f, event.paths[1]))
    IN IF event.t = "Err" THEN Handled(f, RetrieveEvent(event.err), <<>>)
       ELSE IF event.kind \in {CloseWrite, CreateFile}
            THEN Passed(Filter(filter, event))
       ELSE Handled(f, Ignored(event), <<>>)

\* log_result of main.rs: 0 for a sort that returned Ok, 1 for an error
LogResult(result) ==
    IF result.t \in {"Skipped", "Replicated"} THEN 0 ELSE 1

\* the closure of watch with handle_watch_event of main.rs, which returns
\* nothing: the result tells what it logged, or that it panicked
HandleWatchEvent(cfg, f, event) ==
    LET Sorted_(o) ==
            Handled(o.fs, [t |-> "Logged", code |-> LogResult(o.result)],
                    <<SortCall(event.paths[1], o.result)>>)
    IN IF event.t = "Err" THEN Handled(f, [t |-> "LoggedError", err |-> event.err], <<>>)
       ELSE IF event.kind \in {CloseWrite, CreateFile}
            THEN IF event.paths = <<>>
                 THEN Handled(f, [t |-> "Panic"], <<>>)
                 ELSE Sorted_(SortFile(cfg, f, event.paths[1]))
       ELSE Handled(f, [t |-> "Ignored", event |-> event], <<>>)

(***************************************************************************)
(* The batch mode (sort_cmd and sort_dir of src/src/bin/photosort/main.rs) *)
(***************************************************************************)
\* type ExitCode = i32: the largest value of an i32
I32Max == 2147483647

\* exit_code += n on an i32, for a and n that are not negative: past
\* I32Max the sum wraps around to the negative values, as the release
\* build does
Add32(a, b) ==
    IF a > I32Max - b THEN ((a - I32Max) - 1) + ((b - I32Max) - 1) ELSE a + b

\* the exit status a parent process reads keeps the low 8 bits of the
\* value handed to exit
ExitStatusModulus == 256

\* std::process::exit(exit_code), as the operating system reports it
ExitStatus(code) == code % ExitStatusModulus

\* directories that cannot be listed (no read permission)
NoReadDirs == { <<"m", "e">> }

\* dir.join(name)
Join(dir, name) ==
    IF dir # <<>> /\ Last(dir) = "/" THEN Append(dir, name) ELSE dir \o <<"/", name>>

\* fs::read_dir collected: the paths of the entries of a directory, in the
\* order the operating system lists them (order is a list of all names)
ReadDir(f, path, order) ==
    LET Listed(loc) ==
            IF loc = NoLoc \/ EntryAt(f, loc).t = "none"
            THEN [err |-> NotFound, entries |-> <<>>]
            ELSE IF EntryAt(f, loc).t # "dir"
                 THEN [err |-> NotADirectory, entries |-> <<>>]
            ELSE IF loc \in NoReadDirs
                 THEN [err |-> PermissionDenied, entries |-> <<>>]
            ELSE [err |-> NoErr,
                  entries |-> [k \in 1..Len(order) |-> Join(path, order[k])]]
        Present(loc, r) ==
            [err |-> r.err,
             entries |-> SelectSeq(r.entries,
                                   LAMBDA e : EntryAt(f, Append(loc, Last(e))).t # "none")]
        At(loc) == Present(loc, Listed(loc))
    IN IF path = <<>> THEN [err |-> NotFound, entries |-> <<>>]
       ELSE At(Resolve(f, Loc(path), MaxSymlinks))

\* Iterator::rev
RECURSIVE Reverse(_)
Reverse(s) == IF s = <<>> THEN <<>> ELSE Append(Reverse(Tail(s)), Head(s))

\* one listing of a directory by sort_dir: the directory, the error of
\* read_dir, the entries in the order they are gone through
Walk(dir, err, entries) == [dir |-> dir, err |-> err, entries |-> entries]

\* what sort_cmd or sort_dir did with one path: the filesystem after it,
\* the exit code it returns, the calls of sort_file and the listings made
Walked(f, code, calls, walks) ==
    [fs |-> f, exit_code |-> code, calls |-> calls, walks |-> walks]

\* exit_code += log_result(sorter.sort_file(&path), &path)
SortOne(cfg, f, path) ==
    LET Logged(o) ==
            Walked(o.fs, LogResult(o.result), <<SortCall(path, o.result)>>, <<>>)
    IN Logged(SortFile(cfg, f, path))

\* exit_code += the exit code of what was done with one entry
Merge(acc, o) ==
    Walked(o.fs, Add32(acc.exit_code, o.exit_code), acc.calls \o o.calls,
           acc.walks \o o.walks)

RECURSIVE SortDir(_, _, _, _)

\* a loop of sort_dir that returns at the first entry that fails
RECURSIVE SortEntriesAbortOnFailure(_, _, _, _, _)
SortEntriesAbortOnFailure(cfg, order, entries, k, acc) ==
    LET Then(o) == SortEntriesAbortOnFailure(cfg, order, entries, k + 1, Merge(acc, o))
    IN IF k > Len(entries) \/ acc.exit_code # 0 THEN acc
       ELSE IF IsDir(acc.fs, entries[k])
            THEN Then(SortDir(cfg, acc.fs, entries[k], order))
       ELSE Then(SortOne(cfg, acc.fs, entries[k]))

\* the loop of sort_dir over the entries from the k-th on: a directory is
\* gone into, anything else is sorted
RECURSIVE SortEntries(_, _, _, _, _)
SortEntries(cfg, order, entries, k, acc) ==
    LET Then(o) == SortEntries(cfg, order, entries, k + 1, Merge(acc, o))
    IN IF k > Len(entries) THEN acc
       ELSE IF IsDir(acc.fs, entries[k])
            THEN Then(SortDir(cfg, acc.fs, entries[k], order))
       ELSE Then(SortOne(cfg, acc.fs, entries[k]))

\* a sort_dir that goes through the entries in the order they are listed
SortDirInListingOrder(cfg, f, src_path, order) ==
    LET Listed(r) ==
            IF r.err # NoErr
            THEN Walked(f, 1, <<>>, <<Walk(src_path, r.err, <<>>)>>)
            ELSE SortEntries(cfg, order, r.entries, 1,
                             Walked(f, 0, <<>>, <<Walk(src_path, NoErr, r.entries)>>))
    IN Listed(ReadDir(f, src_path, order))

\* sort_dir
SortDir(cfg, f, src_path, order) ==
    LET Listed(r) ==
            IF r.err # NoErr
            THEN Walked(f, 1, <<>>, <<Walk(src_path, r.err, <<>>)>>)
            ELSE SortEntries(cfg, order, Reverse(r.entries), 1,
                             Walked(f, 0, <<>>, <<Walk(src_path, NoErr, Reverse(r.entries))>>))
    IN Listed(ReadDir(f, src_path, order))

\* the body of the loop of sort_cmd for one source
SortSource(cfg, f, src_path, order) ==
    IF IsDir(f, src_path) THEN SortDir(cfg, f, src_path, order)
    ELSE SortOne(cfg, f, src_path)

(***************************************************************************)
(* The inputs of the model                                                 *)
(***************************************************************************)
PathWA == <<"/", "w", "/", "a">>

PathA == <<"a">>

PathWB == <<"/", "w", "/", "b">>

PathB == <<"b">>

PathWDA == <<"/", "w", "/", "d", "/", "a">>

PathMB == <<"/", "m", "/", "b">>

\* the source paths handed to sort_file: absolute, and relative to Cwd
Sources == {PathWA, PathA}

\* the templates of a sorter, as token lists
Templates ==
    { <<Var("file.path")>>,
      <<Str(PathWA)>>,
      <<Str(PathWB)>>,
      <<Str(PathB)>>,
      <<Str(<<"/", "w", "/", "d", "/">>), Var("file.name")>>,
      <<Str(PathMB)>>,
      <<Str(<<"/", "m", "/", "e", "/">>), Var("file.name")>>,
      <<Var("date")>> }

\* the replicator kinds a command line or a configuration names
Kinds == {"copy", "hardlink", "softlink"}

RECURSIVE SeqsUpTo(_, _)
SeqsUpTo(S, n) ==
    IF n = 0 THEN {<<>>}
    ELSE LET shorter == SeqsUpTo(S, n - 1)
         IN shorter \cup {Append(s, x) : s \in shorter, x \in S}

\* the lists of kinds a chain is built from, the empty one included
KindLists == SeqsUpTo(Kinds, MaxChain)

\* the replicators of tests::replicator_with_fallback, before from_iter
MockList == <<Strategy("mock1"), Strategy("mock2")>>

\* each kind boxed by From<ReplicatorKind>
Boxed(kinds) == [k \in 1..Len(kinds) |-> Strategy(kinds[k])]

\* the lists of boxed replicators handed to from_iter in a direct call
DirectLists == {MockList, <<>>} \cup {<<Strategy(k)>> : k \in Kinds}

\* the destinations of a direct call of replicate
DirectDsts == {PathWB, PathWDA, PathMB}

\* the filesystems a run starts from: the source present or not; b absent,
\* a file, a directory holding a file, a link to the source, a link to d/a;
\* d absent, empty, or holding a file; the read-only m holding a file
InitialFs ==
    { [l \in Locs |->
         CASE l = <<"w">> -> Dir
           [] l = <<"m">> -> Dir
           [] l = <<"m", "b">> -> File(5, "E")
           [] l = <<"w", "a">> -> a
           [] l = <<"w", "b">> -> b
           [] l = <<"w", "b", "c">> -> IF b = Dir THEN File(3, "C") ELSE NoEntry
           [] l = <<"w", "d">> -> IF d = 0 THEN NoEntry ELSE Dir
           [] l = <<"w", "d", "a">> -> IF d = 2 THEN File(4, "D") ELSE NoEntry
           [] OTHER -> NoEntry] :
      a \in {File(1, "A"), NoEntry},
      b \in {NoEntry, File(2, "B"), Dir, Lnk(PathWA), Lnk(PathWDA)},
      d \in 0..2 }

\* the sources of the engine that builds a context: also a path that may
\* be a directory or a symbolic link left dangling
ContextSources == Sources \cup {PathWB}

\* the characters template texts are made of
Alphabet == {"x", ":", TwoByteChar}

\* the texts of tests and of the testable properties: ":x:/:y:", ":x::y:",
\* "x::y", "x:y", ":date.day" and "i'm going to :: next year"
ExampleTexts ==
    { <<":", "x", ":", "/", ":", "y", ":">>,
      <<":", "x", ":", ":", "y", ":">>,
      <<"x", ":", ":", "y">>,
      <<"x", ":", "y">>,
      <<":", "d", "a", "t", "e", ".", "d", "a", "y">>,
      <<"i", "'", "m", " ", "g", "o", "i", "n", "g", " ", "t", "o", " ", ":", ":",
        " ", "n", "e", "x", "t", " ", "y", "e", "a", "r">> }

\* the template texts handed to from_str
Texts == SeqsUpTo(Alphabet, MaxText) \cup ExampleTexts

\* texts in which a character of two bytes comes before the delimiter that
\* opens a variable, so that the byte after the character index of the
\* delimiter is the delimiter itself
ShiftedTexts ==
    { <<TwoByteChar, "x", ":", "y", ":">>,
      <<TwoByteChar, "x", ":", "f", "i", "l", "e", ".", "p", "a", "t", "h", "x", ":">> }

\* the lists of names and the values handed to Context::insert
KeyLists == { <<>>, <<"x">>, <<"y">>, <<"x", "y">> }

Values == { StringValue(<<"1">>), StringValue(<<"2">>), AlwaysFailTemplateValue }

\* the filesystem of the runs that only parse and render
TemplateFs ==
    [l \in Locs |->
        CASE l = <<"w">> -> Dir
          [] l = <<"m">> -> Dir
          [] l = <<"w", "a">> -> File(1, "A")
          [] OTHER -> NoEntry]

\* the kinds of the events of the watcher: the two that are sorted, and a
\* directory made, a file removed, metadata changed
EventKinds == {CloseWrite, CreateFile, "Create(Folder)", "Remove(File)", "Modify(Metadata(Any))"}

\* a path that is not valid UTF-8
PathNotUtf8 == <<"/", "w", "/", InvalidByte>>

\* the path lists of the events: none, one, two
EventPathLists ==
    { <<>>, <<PathWA>>, <<PathA>>, <<PathNotUtf8>>, <<PathWA, PathWB>>, <<PathWB, PathWA>> }

Events ==
    { Event(k, ps) : k \in EventKinds, ps \in EventPathLists }
        \cup { EventErr("watch error") }

\* the ignore patterns of a configuration: none, one that matches "/w/a"
\* only, one that matches every path
IgnoreRegexes ==
    { NoRegex, Regex({PathWA}), Regex({PathWA, PathA, PathWB, PathNotUtf8}) }

\* the templates, the replicators and the filesystems of the watch mode
WatchTemplates ==
    { <<Str(<<"/", "w", "/", "d", "/">>), Var("file.name")>>, <<Str(PathWB)>> }

WatchKinds == <<"hardlink", "copy">>

WatchFs ==
    { [l \in Locs |->
         CASE l = <<"w">> -> Dir
           [] l = <<"m">> -> Dir
           [] l = <<"w", "a">> -> File(1, "A")
           [] l = <<"w", "b">> -> b
           [] OTHER -> NoEntry] :
      b \in {NoEntry, File(2, "B")} }

\* the orders in which the operating system lists the names of a
\* directory
ReadDirOrders == { <<"a", "b", "c", "d", "e">>, <<"e", "d", "c", "b", "a">> }

PathW == <<"/", "w">>

PathME == <<"/", "m", "/", "e">>

PathM == <<"/", "m">>

\* a source that does not exist
PathWX == <<"/", "w", "/", "x">>

\* the templates of a batch: one that no file renders, one whose
\* destination is a file of a read-only directory, one whose destination
\* is in a directory that cannot be made, one that sorts into /w/d
BatchTemplates ==
    { <<Var("date")>>,
      <<Str(PathMB)>>,
      <<Str(<<"/", "m", "/", "e", "/">>), Var("file.name")>>,
      <<Str(<<"/", "w", "/", "d", "/">>), Var("file.name")>> }

\* the filesystems of a batch: /w holds the file a, the directory b with
\* the file c and the directory d with the file a; /m/e exists or not
BatchFs ==
    { [l \in Locs |->
         CASE l = <<"w">> -> Dir
           [] l = <<"m">> -> Dir
           [] l = <<"m", "b">> -> File(5, "E")
           [] l = <<"m", "e">> -> e
           [] l = <<"w", "a">> -> File(1, "A")
           [] l = <<"w", "b">> -> Dir
           [] l = <<"w", "b", "c">> -> File(3, "C")
           [] l = <<"w", "d">> -> Dir
           [] l = <<"w", "d", "a">> -> File(4, "D")
           [] OTHER -> NoEntry] :
      e \in {NoEntry, Dir} }

\* a list of n times the same source
Repeated(src, n) == [k \in 1..n |-> src]

\* the longest list of sources of a batch
MaxSources == 256

\* the lists of sources of the command line: files, directories, a source
\* that is missing, a directory that cannot be listed
ShortSourceLists ==
    { <<>>, <<PathWA>>, <<PathW>>, <<PathWB, PathWA>>, <<PathWX, PathWA>>,
      <<PathME, PathWB>>, <<PathW, PathME>>, <<PathM, PathWA>> }

LongSourceLists == { Repeated(PathWX, n) : n \in 1..MaxSources }

\* the names of the providers of template/variables
FileNames == {"file.path", "file.name", "file.stem", "file.extension"}

FileNameDateNames ==
    {"file.name.date", "file.name.date.year", "file.name.date.month", "file.name.date.day"}

FileMdNames ==
    {"file.md.creation_date", "file.md.creation_date.year",
     "file.md.creation_date.month", "file.md.creation_date.day"}

ExifNames == {"exif.date", "exif.date.year", "exif.date.month", "exif.date.day"}

DateNames == {"date", "date.year", "date.month", "date.day"}

ProviderNames ==
    FileNames \cup FileNameDateNames \cup FileMdNames \cup ExifNames \cup DateNames

\* the source files a context is built for: /w/a without metadata
\* container, with a container that holds the DateTime field, with one
\* that does not, no file at all, and a directory, which opens and fails
\* to be read
VariableFs ==
    { [l \in Locs |->
         CASE l = <<"w">> -> Dir
           [] l = <<"w", "a">> -> e
           [] OTHER -> NoEntry] :
      e \in {File(1, "A"), File(1, "J"), File(1, "K"), NoEntry, Dir} }

\* the names a caller registers values of its own under, and the values
RegisteredNames ==
    {"exif.date.year", "file.md.creation_date.year", "file.md.creation_date.month",
     "file.md.creation_date.day"}

RegisteredValues == { StringValue(<<"7">>), AlwaysFailTemplateValue }

\* the most values a caller registers in a built context
MaxRegistered == 2

\* the file names of the tests of file.rs: picture-<date>-0000.jpg
NamePrefix == <<"p", "i", "c", "t", "u", "r", "e", "-">>

NameSuffix == <<"-", "0", "0", "0", "0", ".", "j", "p", "g">>

DatedName(year, sep, month, day) ==
    NamePrefix \o year \o sep \o month \o sep \o day \o NameSuffix

\* the largest month and day the generated names hold
MaxMonth == 13

MaxDay == 32

\* years of four digits (2024 is a leap year), of two and of three
NameYears == { <<"2", "0", "2", "2">>, <<"2", "0", "2", "4">>, <<"2", "2">>, <<"0", "2", "2">> }

NameSeparators == { <<"-">>, <<"_">>, <<>> }

\* months and days of two digits from 00 on, and of one digit
NameMonths == { Pad(n, 2) : n \in 0..MaxMonth } \cup { <<"3">> }

NameDays == { Pad(n, 2) : n \in 0..MaxDay } \cup { <<"1">>, <<"4", "0">> }

DatedNames ==
    { DatedName(y, s, mo, d) : y \in NameYears, s \in NameSeparators,
                               mo \in NameMonths, d \in NameDays }

\* names of the tests of file.rs with two different separators, without
\* date, and a name that is not UTF-8
OtherNames ==
    { NamePrefix \o <<"2", "0", "2", "2", "_", "1", "1", "-", "0", "1">> \o NameSuffix,
      NamePrefix \o <<"2", "0", "2", "2", "-", "1", "1", "-", "0", "1">> \o NameSuffix,
      <<"a", ".", "j", "p", "g">>,
      <<InvalidByte>> \o NamePrefix \o <<"2", "0", "2", "2", "1", "1", "0", "1">> }

\* the directories of the sources: one whose name holds a date
PlainDir == <<"w">>

DatedDir == <<"2", "0", "2", "1", "-", "0", "5", "-", "0", "6">>

\* the sources whose file name dates are extracted: directory and name
NamedSources ==
    { <<PlainDir, n>> : n \in DatedNames \cup OtherNames }
        \cup { <<DatedDir, n>> : n \in OtherNames }

\* the filesystem that holds one source, a file without container
NameFs(dir, name) ==
    [l \in { <<JoinChars(dir)>>, <<JoinChars(dir), JoinChars(name)>> } |->
        IF Len(l) = 1 THEN Dir ELSE File(1, "A")]

(***************************************************************************)
(* The state machine.  fs is the filesystem; sorter is the Sorter built    *)
(* from a configuration, if one was built; chain is the replicator built   *)
(* by from_iter with the list it was built from; last is the record of the *)
(* last call made (its inputs, the filesystem it started from, its         *)
(* outcome).  input is a template text, parsed what from_str made of it,   *)
(* context a Context and renders the results of the renders of the parsed  *)
(* template with it, in order.  event_filter is the EventFilter of the     *)
(* watch mode, if one was built; sources are the sources sort_cmd has yet  *)
(* to go through, exit_code its count of failures and status the exit      *)
(* status of the process once it has exited.                               *)
(***************************************************************************)
NotParsed == [t |-> "NotParsed"]

NoEventFilter == [some |-> FALSE]

NoSorter == [some |-> FALSE]

\* Sorter::new
Sorter(cfg) == [some |-> TRUE, cfg |-> cfg]

\* the replicator from_iter builds from a list, kept with the list
Chain(list) == [list |-> list, replicator |-> FromIter(list)]

\* no event filter was built and no batch is run
NoProcess ==
    /\ event_filter = NoEventFilter
    /\ sources = <<>>
    /\ exit_code = 0
    /\ status = None

\* a sorter is built from a template, a list of kinds and the overwrite
\* flag, as sort_cmd and config::Watch::from do
InitSorter ==
    \E tpl \in Templates, kinds \in KindLists, ow \in BOOLEAN :
        /\ chain = Chain(Boxed(kinds))
        /\ sorter = Sorter(Config(tpl, FromKinds(kinds), ow))

\* a replicator alone is built by from_iter, as the tests of replicator.rs do
InitReplicator ==
    \E list \in DirectLists :
        /\ chain = Chain(list)
        /\ sorter = NoSorter

Init ==
    /\ fs \in InitialFs
    /\ last = [op |-> "init"]
    /\ InitSorter \/ InitReplicator
    /\ input = <<>>
    /\ parsed = NotParsed
    /\ context = ContextDefault
    /\ renders = <<>>
    /\ NoProcess

\* sort_file is called on a source
SortFileCall ==
    /\ sorter.some
    /\ \E src \in Sources :
        LET Returned(o) ==
                /\ fs' = o.fs
                /\ last' = [op |-> "sort", src |-> src,
                            rendered |-> Render(sorter.cfg.template, PrepareTemplateCtx(src)),
                            fs0 |-> fs, result |-> o.result, ops |-> o.ops]
        IN Returned(SortFile(sorter.cfg, fs, src))
    /\ UNCHANGED <<sorter, chain, input, parsed, context, renders,
                 event_filter, sources, exit_code, status>>

\* sort_file of the engine that builds a context is called on a source
SortFileWithContextCall ==
    /\ sorter.some
    /\ \E src \in ContextSources :
        LET Returned(o) ==
                /\ fs' = o.fs
                /\ last' = [op |-> "sort_with_context", src |-> src, fs0 |-> fs,
                            result |-> o.result, ops |-> o.ops]
        IN Returned(SortFileWithContext(sorter.cfg, fs, src))
    /\ UNCHANGED <<sorter, chain, input, parsed, context, renders,
                 event_filter, sources, exit_code, status>>

\* replicate is called on the replicator alone
ReplicateCall ==
    /\ ~sorter.some
    /\ \E src \in Sources, dst \in DirectDsts :
        LET Returned(o) ==
                /\ fs' = o.fs
                /\ last' = [op |-> "replicate", src |-> src, dst |-> dst, fs0 |-> fs,
                            err |-> o.err, attempts |-> o.attempts]
        IN Returned(Replicate(chain.replicator, fs, src, dst))
    /\ UNCHANGED <<sorter, chain, input, parsed, context, renders,
                 event_filter, sources, exit_code, status>>

Next == SortFileCall \/ SortFileWithContextCall \/ ReplicateCall

Spec == Init /\ [][Next]_vars

(***************************************************************************)
(* A replicator read from a configuration: the sequence of kinds is        *)
(* deserialized, and the replicator it gives is called directly.           *)
(***************************************************************************)
\* no replicator was deserialized yet
NotDeserialized == [t |-> "undeserialized"]

DeserializeInit ==
    /\ fs \in InitialFs
    /\ sorter = NoSorter
    /\ \E kinds \in KindLists :
        chain = [list |-> Boxed(kinds), replicator |-> NotDeserialized]
    /\ last = [op |-> "init"]
    /\ input = <<>>
    /\ parsed = NotParsed
    /\ context = ContextDefault
    /\ renders = <<>>
    /\ NoProcess

\* Box<dyn Replicator>::deserialize is handed the sequence of the
\* configuration
DeserializeCall ==
    /\ last.op = "init"
    /\ LET Returned(d) ==
                /\ chain' = [chain EXCEPT !.replicator =
                                 IF d.ok THEN d.replicator ELSE NotDeserialized]
                /\ last' = [op |-> "deserialize", ok |-> d.ok, err |-> d.err]
       IN Returned(VisitSeq([k \in 1..Len(chain.list) |-> chain.list[k].t]))
    /\ UNCHANGED <<fs, sorter, input, parsed, context, renders,
                 event_filter, sources, exit_code, status>>

\* replicate is called on the deserialized replicator
ReplicateDeserializedCall ==
    /\ chain.replicator # NotDeserialized
    /\ \E src \in Sources, dst \in DirectDsts :
        LET Returned(o) ==
                /\ fs' = o.fs
                /\ last' = [op |-> "replicate", src |-> src, dst |-> dst, fs0 |-> fs,
                            err |-> o.err, attempts |-> o.attempts]
        IN Returned(Replicate(chain.replicator, fs, src, dst))
    /\ UNCHANGED <<sorter, chain, input, parsed, context, renders,
                 event_filter, sources, exit_code, status>>

DeserializeNext == DeserializeCall \/ ReplicateDeserializedCall

DeserializeSpec == DeserializeInit /\ [][DeserializeNext]_vars

(***************************************************************************)
(* sort_file next to another process: replicate_file runs up to the call   *)
(* of the replicator (lines 54-87), another process may then create the    *)
(* destination, and the replicator is invoked (lines 89-96).               *)
(***************************************************************************)
\* the content of a file another process writes
OtherData == "Z"

RaceInit ==
    /\ fs \in InitialFs
    /\ last = [op |-> "init"]
    /\ InitSorter
    /\ input = <<>>
    /\ parsed = NotParsed
    /\ context = ContextDefault
    /\ renders = <<>>
    /\ NoProcess

\* sort_file is called and runs until it returns without the replicator
\* or is about to invoke it: what it does before is what SortFile does
\* before its call of replicate
SortFileUntilReplicator ==
    /\ last.op = "init"
    /\ \E src \in Sources :
        LET Reached(r, o) ==
                IF o.ops = <<>> \/ Last(o.ops).op # "replicate"
                THEN /\ fs' = o.fs
                     /\ last' = [op |-> "sort", src |-> src, rendered |-> r, fs0 |-> fs,
                                 result |-> o.result, ops |-> o.ops,
                                 raced |-> FALSE, before |-> fs]
                ELSE /\ fs' = Last(Front(o.ops)).after
                     /\ last' = [op |-> "sort_pending", src |-> src, rendered |-> r,
                                 fs0 |-> fs, ops |-> Front(o.ops),
                                 flag |-> OverwriteFlag(Exists(fs, r.path),
                                                        sorter.cfg.overwrite),
                                 raced |-> FALSE]
        IN Reached(Render(sorter.cfg.template, PrepareTemplateCtx(src)),
                   SortFile(sorter.cfg, fs, src))
    /\ UNCHANGED <<sorter, chain, input, parsed, context, renders,
                 event_filter, sources, exit_code, status>>

\* another process creates the destination, a file of its own, between the
\* existence test of sort_file and the replicator
OtherProcessCreates ==
    /\ last.op = "sort_pending"
    /\ ~last.raced
    /\ LET Created(dl) ==
                /\ dl \in DOMAIN fs
                /\ DirOk(fs, dl)
                /\ EntryAt(fs, dl).t = "none"
                /\ fs' = [fs EXCEPT ![dl] = File(NewIno(fs), OtherData)]
       IN Created(Loc(last.rendered.path))
    /\ last' = [last EXCEPT !.raced = TRUE]
    /\ UNCHANGED <<sorter, chain, input, parsed, context, renders,
                 event_filter, sources, exit_code, status>>

\* sort_file goes on: the replicator is invoked and sort_file returns
ReplicatorInvoked ==
    /\ last.op = "sort_pending"
    /\ LET Returned(o) ==
                /\ fs' = o.fs
                /\ last' = [op |-> "sort", src |-> last.src, rendered |-> last.rendered,
                            fs0 |-> last.fs0, result |-> o.result, ops |-> o.ops,
                            raced |-> last.raced, before |-> fs]
       IN Returned(InvokeReplicator(sorter.cfg, fs, last.src, last.rendered.path,
                                    last.flag, last.ops))
    /\ UNCHANGED <<sorter, chain, input, parsed, context, renders,
                 event_filter, sources, exit_code, status>>

RaceNext == SortFileUntilReplicator \/ OtherProcessCreates \/ ReplicatorInvoked

RaceSpec == RaceInit /\ [][RaceNext]_vars

(***************************************************************************)
(* Parsing and rendering alone: a input is parsed, values are inserted into *)
(* a context, and the parsed template is rendered with it, twice at most.  *)
(***************************************************************************)
TemplateInit ==
    /\ fs = TemplateFs
    /\ sorter = NoSorter
    /\ chain = Chain(<<>>)
    /\ last = [op |-> "init"]
    /\ input \in Texts
    /\ parsed = NotParsed
    /\ context = ContextDefault
    /\ renders = <<>>
    /\ NoProcess

\* the assertion of Context::insert failed: the thread has panicked
InsertPanicked == last.op = "insert" /\ last.panicked

\* Template::from_str(input)
FromStrCall ==
    /\ ~InsertPanicked
    /\ parsed = NotParsed
    /\ parsed' = FromStr(input)
    /\ UNCHANGED <<fs, sorter, chain, last, input, context, renders,
                 event_filter, sources, exit_code, status>>

\* context.insert(keys, value), before the context is rendered with
InsertCall ==
    /\ ~InsertPanicked
    /\ renders = <<>>
    /\ Len(context.template_values) < MaxInserts
    /\ \E keys \in KeyLists, value \in Values :
        LET Inserted(r) ==
                /\ context' = r.ctx
                /\ last' = [op |-> "insert", keys |-> keys, value |-> value,
                            before |-> context, panicked |-> ~r.ok]
        IN Inserted(ContextInsert(context, keys, value))
    /\ UNCHANGED <<fs, sorter, chain, input, parsed, renders,
                 event_filter, sources, exit_code, status>>

\* tpl.render(&context), as the tests call it once and again
RenderCall ==
    /\ ~InsertPanicked
    /\ parsed.t = "Ok"
    /\ Len(renders) < 2
    /\ renders' = Append(renders, TemplateRender(parsed.tokens, context, fs))
    /\ UNCHANGED <<fs, sorter, chain, last, input, parsed, context,
                 event_filter, sources, exit_code, status>>

TemplateNext == FromStrCall \/ InsertCall \/ RenderCall

TemplateSpec == TemplateInit /\ [][TemplateNext]_vars

(***************************************************************************)
(* from_str one character at a time: last holds the locals of from_str     *)
(* (the index i of the character looked at next, char_count, tokens and    *)
(* the two start indices) until from_str returns, panics included.         *)
(***************************************************************************)
Locals(i, char_count, tokens, variable_start_index, string_start_index) ==
    [op |-> "from_str", i |-> i, char_count |-> char_count, tokens |-> tokens,
     variable_start_index |-> variable_start_index,
     string_start_index |-> string_start_index]

ParseInit ==
    /\ fs = TemplateFs
    /\ sorter = NoSorter
    /\ chain = Chain(<<>>)
    /\ last = Locals(0, 1, <<>>, None, 0)
    /\ input \in Texts \cup ShiftedTexts
    /\ parsed = NotParsed
    /\ context = ContextDefault
    /\ renders = <<>>
    /\ NoProcess

\* one turn of the loop of from_str, lines 89-111: the character at index
\* i is looked at
FromStrChar ==
    /\ parsed = NotParsed
    /\ last.i < Len(input)
    /\ LET i == last.i
           Goes(tokens, variable_start_index, string_start_index) ==
               /\ last' = Locals(i + 1, last.char_count + 1, tokens,
                                 variable_start_index, string_start_index)
               /\ UNCHANGED parsed
           Returns(result) ==
               /\ parsed' = result
               /\ last' = [last EXCEPT !.char_count = last.char_count + 1]
           Literal(sl) ==
               IF ~sl.ok THEN Returns(ParsePanicked)
               ELSE Goes(IF last.string_start_index # i
                         THEN Append(last.tokens, StringToken(sl)) ELSE last.tokens,
                         i + 1, None)
           Variable(sl) ==
               IF ~sl.ok THEN Returns(ParsePanicked)
               ELSE Goes(Append(last.tokens, VariableToken(sl)), None, i + 1)
       IN IF input[i + 1] # ":"
          THEN Goes(last.tokens, last.variable_start_index, last.string_start_index)
          ELSE IF last.string_start_index # None
               THEN Literal(IF last.string_start_index # i
                            THEN Slice(input, last.string_start_index, i)
                            ELSE [ok |-> TRUE, v |-> <<>>])
          ELSE IF last.variable_start_index # None
               THEN IF last.variable_start_index = i
                    THEN Returns(ParseFailed(UnamedVariable(i)))
                    ELSE Variable(Slice(input, last.variable_start_index, i))
          ELSE Goes(last.tokens, last.variable_start_index, last.string_start_index)
    /\ UNCHANGED <<fs, sorter, chain, input, context, renders,
                   event_filter, sources, exit_code, status>>

\* the characters are consumed: lines 113-125 of from_str
FromStrReturn ==
    /\ parsed = NotParsed
    /\ last.i >= Len(input)
    /\ parsed' = FromStrEnd(input, last.char_count, last.tokens,
                            last.variable_start_index, last.string_start_index)
    /\ UNCHANGED <<fs, sorter, chain, last, input, context, renders,
                   event_filter, sources, exit_code, status>>

ParseNext == FromStrChar \/ FromStrReturn

ParseSpec == ParseInit /\ [][ParseNext]_vars

(***************************************************************************)
(* The watch mode: a sorter and an event filter are built from a           *)
(* configuration, and the events of the watcher are handled one after the  *)
(* other, by handle_event of watch.rs or by handle_watch_event of main.rs. *)
(***************************************************************************)
WatchInit ==
    /\ fs \in WatchFs
    /\ last = [op |-> "init"]
    /\ \E tpl \in WatchTemplates, ow \in BOOLEAN :
          sorter = Sorter(Config(tpl, FromKinds(WatchKinds), ow))
    /\ chain = Chain(Boxed(WatchKinds))
    /\ \E regex \in IgnoreRegexes : event_filter = EventFilter(regex)
    /\ input = <<>>
    /\ parsed = NotParsed
    /\ context = ContextDefault
    /\ renders = <<>>
    /\ sources = <<>>
    /\ exit_code = 0
    /\ status = None

\* the callback of the watcher thread has panicked: no event is handled
\* any more
WatcherDead == last.op = "handle_watch_event" /\ last.result.t = "Panic"

\* handler.handle_event(event) of EventWatcher::start
HandleEventCall ==
    /\ ~WatcherDead
    /\ \E event \in Events :
        LET Returned(o) ==
                /\ fs' = o.fs
                /\ last' = [op |-> "handle_event", event |-> event, fs0 |-> fs,
                            result |-> o.result, sorts |-> o.sorts]
        IN Returned(HandleEvent(event_filter, sorter.cfg, fs, event))
    /\ UNCHANGED <<sorter, chain, input, parsed, context, renders,
                   event_filter, sources, exit_code, status>>

\* the closure of watch of main.rs is called with an event
HandleWatchEventCall ==
    /\ ~WatcherDead
    /\ \E event \in Events :
        LET Returned(o) ==
                /\ fs' = o.fs
                /\ last' = [op |-> "handle_watch_event", event |-> event, fs0 |-> fs,
                            result |-> o.result, sorts |-> o.sorts]
        IN Returned(HandleWatchEvent(sorter.cfg, fs, event))
    /\ UNCHANGED <<sorter, chain, input, parsed, context, renders,
                   event_filter, sources, exit_code, status>>

WatchNext == HandleEventCall \/ HandleWatchEventCall

WatchSpec == WatchInit /\ [][WatchNext]_vars

(***************************************************************************)
(* The batch mode: sort_cmd goes through its sources one after the other,  *)
(* then main exits with the exit code.                                     *)
(***************************************************************************)
BatchInit ==
    /\ fs \in BatchFs
    /\ last = [op |-> "init"]
    /\ \/ /\ sources \in ShortSourceLists
          /\ \E tpl \in BatchTemplates, ow \in BOOLEAN :
                sorter = Sorter(Config(tpl, FromKinds(WatchKinds), ow))
       \/ /\ sources \in LongSourceLists
          /\ sorter = Sorter(Config(<<Var("date")>>, FromKinds(WatchKinds), FALSE))
    /\ chain = Chain(Boxed(WatchKinds))
    /\ event_filter = NoEventFilter
    /\ input = <<>>
    /\ parsed = NotParsed
    /\ context = ContextDefault
    /\ renders = <<>>
    /\ exit_code = 0
    /\ status = None

\* the failures a step of sort_cmd met: the calls of sort_file that
\* returned an error and the directories that could not be listed
Failures(o) ==
    Cardinality({ k \in 1..Len(o.calls) : o.calls[k].result.t \notin {"Skipped", "Replicated"} })
        + Cardinality({ k \in 1..Len(o.walks) : o.walks[k].err # NoErr })

\* the failures of the run so far
RunFailures == IF last.op = "sort_cmd" THEN last.failures ELSE 0

\* one turn of the loop of sort_cmd: the next source is sorted
SortCmdStep ==
    /\ status = None
    /\ sources # <<>>
    /\ \E order \in ReadDirOrders :
        LET Returned(o) ==
                /\ fs' = o.fs
                /\ exit_code' = Add32(exit_code, o.exit_code)
                /\ last' = [op |-> "sort_cmd", src |-> Head(sources), fs0 |-> fs,
                            code |-> o.exit_code, calls |-> o.calls, walks |-> o.walks,
                            failures |-> RunFailures + Failures(o), order |-> order]
        IN Returned(SortSource(sorter.cfg, fs, Head(sources), order))
    /\ sources' = Tail(sources)
    /\ UNCHANGED <<sorter, chain, input, parsed, context, renders, event_filter, status>>

\* exit(exit_code) of main, once sort_cmd has returned
ExitCall ==
    /\ status = None
    /\ sources = <<>>
    /\ status' = ExitStatus(exit_code)
    /\ UNCHANGED <<fs, sorter, chain, last, input, parsed, context, renders,
                   event_filter, sources, exit_code>>

BatchNext == SortCmdStep \/ ExitCall

BatchSpec == BatchInit /\ [][BatchNext]_vars

(***************************************************************************)
(* The variables of a source file: the context is built by                 *)
(* prepare_template_context, a caller may register values of its own, the  *)
(* source may be removed meanwhile, and one variable is rendered.           *)
(***************************************************************************)
VariableInit ==
    /\ fs \in VariableFs
    /\ sources = <<PathWA>>
    /\ last = [op |-> "init", ok |-> FALSE, registered |-> 0, removed |-> FALSE, name |-> ""]
    /\ sorter = NoSorter
    /\ chain = Chain(<<>>)
    /\ input = <<>>
    /\ parsed = NotParsed
    /\ context = ContextDefault
    /\ renders = <<>>
    /\ event_filter = NoEventFilter
    /\ exit_code = 0
    /\ status = None

\* prepare_template_context(&mut ctx, path) on a fresh context
PrepareCall ==
    /\ last.op = "init"
    /\ LET Prepared(r) ==
               /\ context' = r.ctx
               /\ last' = [op |-> "prepare", ok |-> r.ok, registered |-> 0,
                           removed |-> FALSE, name |-> "", err |-> r.err]
       IN Prepared(PrepareTemplateContext(fs, Head(sources)))
    /\ UNCHANGED <<fs, sorter, chain, input, parsed, renders, event_filter,
                   sources, exit_code, status>>

\* ctx.insert(&[name], value) by the caller of the library
RegisterCall ==
    /\ last.ok
    /\ renders = <<>>
    /\ last.registered < MaxRegistered
    /\ \E name \in RegisteredNames, value \in RegisteredValues :
          context' = ContextInsert(context, <<name>>, value).ctx
    /\ last' = [last EXCEPT !.op = "register", !.registered = @ + 1]
    /\ UNCHANGED <<fs, sorter, chain, input, parsed, renders, event_filter,
                   sources, exit_code, status>>

\* the source is removed by another process once the context is built
SourceRemoved ==
    /\ last.ok
    /\ renders = <<>>
    /\ ~last.removed
    /\ fs' = RemoveFile(fs, Head(sources)).fs
    /\ last' = [last EXCEPT !.op = "remove", !.removed = TRUE]
    /\ UNCHANGED <<sorter, chain, input, parsed, context, renders, event_filter,
                   sources, exit_code, status>>

\* the template of one variable is rendered
RenderVariableCall ==
    /\ last.ok
    /\ renders = <<>>
    /\ \E name \in ProviderNames :
          /\ renders' = <<TemplateRender(<<Var(name)>>, context, fs)>>
          /\ last' = [last EXCEPT !.op = "render", !.name = name]
    /\ UNCHANGED <<fs, sorter, chain, input, parsed, context, event_filter,
                   sources, exit_code, status>>

\* variables::prepare_template_context(&mut ctx) called on a fresh context,
\* without the private path
VariablesPrepareCall ==
    /\ last.op = "init"
    /\ LET Prepared(r) ==
               /\ context' = r.ctx
               /\ last' = [op |-> "variables_prepare", ok |-> FALSE, registered |-> 0,
                           removed |-> FALSE, name |-> "", built |-> r.ok, err |-> r.err]
       IN Prepared(VariablesPrepare(context, fs))
    /\ UNCHANGED <<fs, sorter, chain, input, parsed, renders, event_filter,
                   sources, exit_code, status>>

\* the template of one variable of a provider that reads the private path
\* is rendered with the context variables::prepare_template_context left
\* behind
RenderUnpreparedCall ==
    /\ last.op = "variables_prepare"
    /\ renders = <<>>
    /\ \E name \in FileNames \cup FileNameDateNames \cup FileMdNames :
          /\ ContextGet(context, name).some
          /\ renders' = <<TemplateRender(<<Var(name)>>, context, fs)>>
          /\ last' = [last EXCEPT !.op = "render_unprepared", !.name = name]
    /\ UNCHANGED <<fs, sorter, chain, input, parsed, context, event_filter,
                   sources, exit_code, status>>

VariableNext ==
    \/ PrepareCall
    \/ RegisterCall
    \/ SourceRemoved
    \/ RenderVariableCall
    \/ VariablesPrepareCall
    \/ RenderUnpreparedCall

VariableSpec == VariableInit /\ [][VariableNext]_vars

(***************************************************************************)
(* The date of a file name: the context of a source is built and one of    *)
(* the variables of its file name is rendered.                             *)
(***************************************************************************)
NameDateInit ==
    /\ \E src \in NamedSources :
          /\ fs = NameFs(src[1], src[2])
          /\ sources = << <<"/">> \o src[1] \o <<"/">> \o src[2] >>
    /\ last = [op |-> "init", ok |-> FALSE, registered |-> 0, removed |-> FALSE, name |-> ""]
    /\ sorter = NoSorter
    /\ chain = Chain(<<>>)
    /\ input = <<>>
    /\ parsed = NotParsed
    /\ context = ContextDefault
    /\ renders = <<>>
    /\ event_filter = NoEventFilter
    /\ exit_code = 0
    /\ status = None

\* the template of one variable of the file name is rendered
RenderNameCall ==
    /\ last.ok
    /\ renders = <<>>
    /\ \E name \in FileNameDateNames \cup {"file.name"} :
          /\ renders' = <<TemplateRender(<<Var(name)>>, context, fs)>>
          /\ last' = [last EXCEPT !.op = "render", !.name = name]
    /\ UNCHANGED <<fs, sorter, chain, input, parsed, context, event_filter,
                   sources, exit_code, status>>

NameDateNext == PrepareCall \/ RenderNameCall

NameDateSpec == NameDateInit /\ [][NameDateNext]_vars

\* the filesystem keeps its shape: the entries of Locs, under directories
TypeOK ==
    /\ DOMAIN fs = Locs
    /\ \A l \in Locs : fs[l].t \in {"none", "file", "dir", "lnk"}
    /\ \A l \in Locs : fs[l].t # "none" => DirOk(fs, l)

(***************************************************************************)
(* What the claims speak of                                                *)
(***************************************************************************)
\* the last call was a sort_file whose template rendered to a destination
Sorted == last.op = "sort" /\ last.rendered.ok

\* the rendered destination of the last sort
Dst == last.rendered.path

\* the indices of the log of the last sort at which op was called
OpsAt(op) == {i \in 1..Len(last.ops) : last.ops[i].op = op}

Mutating == {"remove_file", "remove_dir_all", "create_dir_all", "replicate"}

\* the last sort made no call that changes the filesystem
NoMutatingCall == \A i \in 1..Len(last.ops) : last.ops[i].op \notin Mutating

\* nothing is left at the location of path p, nor below it
Gone(f, p) == \A l \in DOMAIN f : IsUnder(l, Loc(p)) => f[l].t = "none"

(***************************************************************************)
(* C1: when the rendered destination equals the source path, sort_file     *)
(* returns Skipped with reason SameFile and the source path, whatever the  *)
(* overwrite setting and the chain; the destination's existence is not     *)
(* looked up, nothing is removed, no directory is made, the replicator is  *)
(* not invoked, and the filesystem is as it was.                           *)
(***************************************************************************)
C1_SameFileSkipped ==
    (Sorted /\ PathEq(Dst, last.src)) =>
        /\ last.result.t = "Skipped"
        /\ last.result.reason = "SameFile"
        /\ PathEq(last.result.replicate_path, last.src)
        /\ last.ops = <<>>
        /\ fs = last.fs0

\* the source is an existing file, overwrite is enabled and the chain holds
\* strategies: the skip is still taken
C1_Witness ==
    /\ Sorted /\ PathEq(Dst, last.src)
    /\ Exists(last.fs0, last.src)
    /\ sorter.cfg.overwrite
    /\ Len(chain.list) = 2
    /\ last.result.t = "Skipped"

(***************************************************************************)
(* C2: when the rendered destination exists, differs from the source and   *)
(* overwrite is disabled, sort_file returns Skipped with reason Overwrite  *)
(* carrying the rendered destination; nothing is removed, no directory is  *)
(* made, the replicator is not invoked and the filesystem is as it was.    *)
(***************************************************************************)
C2_OverwriteDisabledSkipped ==
    (Sorted /\ ~PathEq(Dst, last.src) /\ Exists(last.fs0, Dst) /\ ~sorter.cfg.overwrite) =>
        /\ last.result = Skipped(Dst, "Overwrite")
        /\ NoMutatingCall
        /\ fs = last.fs0

\* an existing file is found at the destination and left alone
C2_Witness ==
    /\ Sorted /\ ~PathEq(Dst, last.src) /\ ~sorter.cfg.overwrite
    /\ Stat(last.fs0, Dst) = File(2, "B")
    /\ Stat(fs, Dst) = File(2, "B")
    /\ last.result.t = "Skipped"

(***************************************************************************)
(* C3: when the rendered destination exists, differs from the source and   *)
(* overwrite is enabled, the first call after the existence test removes   *)
(* the destination (remove_dir_all when it is a directory, remove_file     *)
(* otherwise; once it succeeded nothing is left at the destination nor     *)
(* below it), and the parent directory is made and the replicator invoked  *)
(* only after it; when the chain then succeeds the result is Replicated    *)
(* with overwrite = true and the destination holds what the succeeding     *)
(* strategy makes: a copy of the source's data, the source's inode, or a   *)
(* link to the source path.                                                *)
(***************************************************************************)
\* the destination holds the replica strategy kind makes of the source, f0
\* being the filesystem the strategy started from
HoldsReplica(f, f0, kind, src, dst) ==
    CASE kind = "copy" -> Stat(f, dst).t = "file" /\ Stat(f, dst).data = Stat(f0, src).data
      [] kind = "hardlink" -> EntryAt(f, Loc(dst)) = EntryAt(f0, Loc(src))
                              /\ EntryAt(f, Loc(dst)).t # "none"
      [] kind = "softlink" -> EntryAt(f, Loc(dst)) = Lnk(src)
      [] OTHER -> FALSE

C3_RemovedThenReplaced ==
    (Sorted /\ ~PathEq(Dst, last.src) /\ Exists(last.fs0, Dst) /\ sorter.cfg.overwrite) =>
        /\ Len(last.ops) >= 2
        /\ last.ops[1].op = "exists"
        /\ last.ops[2].op = (IF IsDir(last.fs0, Dst) THEN "remove_dir_all" ELSE "remove_file")
        /\ last.ops[2].err = NoErr => Gone(last.ops[2].after, Dst)
        /\ \A i \in OpsAt("create_dir_all") \cup OpsAt("replicate") :
              i > 2 /\ last.ops[2].err = NoErr
        /\ last.result.t = "Replicated" =>
              LET rep == last.ops[Len(last.ops)]
                  won == rep.attempts[Len(rep.attempts)]
              IN /\ last.result = Replicated(Dst, TRUE)
                 /\ rep.op = "replicate"
                 /\ HoldsReplica(fs, won.before, won.kind, last.src, Dst)

\* a directory holding a file stood at the destination and a copy of the
\* source replaced it
C3_Witness ==
    /\ Sorted /\ sorter.cfg.overwrite
    /\ IsDir(last.fs0, Dst)
    /\ last.fs0[<<"w", "b", "c">>].t = "file"
    /\ fs[<<"w", "b", "c">>].t = "none"
    /\ last.result = Replicated(Dst, TRUE)
    /\ Stat(fs, Dst).t = "file" /\ Stat(fs, Dst).data = "A"

(***************************************************************************)
(* C4: in every Replicated result the overwrite flag is true if and only   *)
(* if the destination existed when sort_file looked and was removed by     *)
(* the overwrite step; it is false when the destination did not exist,     *)
(* whatever the overwrite setting.                                         *)
(***************************************************************************)
C4_OverwriteFlag ==
    (Sorted /\ last.result.t = "Replicated") =>
        /\ last.result.overwrite <=>
              /\ Exists(last.fs0, Dst)
              /\ \E i \in OpsAt("remove_file") \cup OpsAt("remove_dir_all") :
                    last.ops[i].err = NoErr /\ Gone(last.ops[i].after, Dst)
        /\ ~Exists(last.fs0, Dst) => ~last.result.overwrite

\* overwrite is enabled, the destination did not exist: the flag is false
C4_Witness ==
    /\ Sorted /\ last.result.t = "Replicated"
    /\ sorter.cfg.overwrite
    /\ ~Exists(last.fs0, Dst)
    /\ ~last.result.overwrite

(***************************************************************************)
(* C5: when the rendered destination and the source are the same file      *)
(* once canonicalized, although their texts differ (a relative and an      *)
(* absolute path, a path through a symbolic link), sort_file returns       *)
(* Skipped with reason SameFile, overwrite enabled or not.                 *)
(***************************************************************************)
SameCanonical(f, p, q) ==
    Canonicalize(f, p) # NoLoc /\ Canonicalize(f, p) = Canonicalize(f, q)

C5_CanonicalSameFileSkipped ==
    (Sorted /\ Dst # last.src /\ SameCanonical(last.fs0, Dst, last.src)) =>
        /\ last.result.t = "Skipped"
        /\ last.result.reason = "SameFile"

(***************************************************************************)
(* The call of a chain: a direct replicate, or the replicate of a sort     *)
(***************************************************************************)
ChainRan ==
    \/ last.op = "replicate"
    \/ last.op = "sort" /\ OpsAt("replicate") # {}

\* the strategies the chain attempted in its last call, in order
Attempts ==
    IF last.op = "replicate" THEN last.attempts
    ELSE last.ops[CHOOSE i \in OpsAt("replicate") : TRUE].attempts

\* what the chain returned to its caller
ChainErr ==
    IF last.op = "replicate" THEN last.err
    ELSE last.ops[CHOOSE i \in OpsAt("replicate") : TRUE].err

\* the kinds of the configured list, then the sentinel
Configured == [k \in 1..Len(chain.list) |-> chain.list[k].t] \o <<"none">>

(***************************************************************************)
(* C6: on every call of a chain's replicate, after any earlier calls, the  *)
(* strategies attempted are the configured ones in their order, from the   *)
(* first; each attempt starts from the filesystem the one before left; a   *)
(* strategy is attempted only when the one before it failed; and nothing   *)
(* is attempted after a strategy that succeeds, the chain then returning   *)
(* success.                                                                *)
(***************************************************************************)
C6_FallbackOrder ==
    ChainRan =>
        /\ Len(Attempts) \in 1..Len(Configured)
        /\ \A i \in 1..Len(Attempts) : Attempts[i].kind = Configured[i]
        /\ \A i \in 1..(Len(Attempts) - 1) :
              /\ Attempts[i].err # NoErr
              /\ Attempts[i + 1].before = Attempts[i].after
        /\ \A i \in 1..Len(Attempts) :
              Attempts[i].err = NoErr => (i = Len(Attempts) /\ ChainErr = NoErr)

\* the second call of the reference scenario: the first call left "foo",
\* the first strategy is attempted again and fails, the second writes "bar"
C6_Witness ==
    /\ last.op = "replicate" /\ chain.list = MockList
    /\ Stat(last.fs0, last.dst).data = "foo"
    /\ Len(last.attempts) = 2
    /\ last.attempts[1].kind = "mock1" /\ last.attempts[1].err # NoErr
    /\ last.attempts[2].kind = "mock2" /\ last.attempts[2].err = NoErr
    /\ Stat(fs, last.dst).data = "bar"
    /\ last.err = NoErr

(***************************************************************************)
(* C7: when every strategy of a chain fails, the error the chain returns   *)
(* is the sentinel's: its message is the sentinel's fixed message and its  *)
(* kind the sentinel error's kind, whatever the length of the chain.       *)
(***************************************************************************)
C7_ExhaustedIsSentinelError ==
    (ChainRan /\ \A i \in 1..Len(Attempts) : Attempts[i].err \notin {NoErr, Panicked}) =>
        /\ ChainErr.msg = NONE_REPLICATE_ERR_MSG
        /\ ChainErr.kind = NoneReplicateError.kind

(***************************************************************************)
(* C8: the chain from_iter builds from a list of n strategies holds the    *)
(* strategies of the list in order followed by the None sentinel, so it    *)
(* is never empty; the empty list gives the sentinel alone; and a call of  *)
(* replicate attempts at most n + 1 strategies.                            *)
(***************************************************************************)
C8_ChainEndsInSentinel ==
    /\ Strategies(chain.replicator) = Configured
    /\ sorter.some => Strategies(sorter.cfg.replicator) = Configured
    /\ chain.list = <<>> => chain.replicator = NoneReplicator
    /\ ChainRan => Len(Attempts) <= Len(chain.list) + 1

\* both strategies of a list of two failed and the sentinel was reached
C8_Witness ==
    /\ ChainRan
    /\ Len(chain.list) = 2
    /\ Len(Attempts) = 3
    /\ Attempts[3].kind = "none"

(***************************************************************************)
(* C9: every attempt of the None replicator fails with its fixed error     *)
(* and leaves the filesystem as it found it: a source that existed still   *)
(* exists and no destination is made.                                      *)
(***************************************************************************)
C9_NoneNeverSucceeds ==
    ChainRan =>
        \A i \in 1..Len(Attempts) :
            Attempts[i].kind = "none" =>
                /\ Attempts[i].err = NoneReplicateError
                /\ Attempts[i].after = Attempts[i].before
                /\ ChainErr # NoErr

\* tests::none_replicator_error: the sentinel alone, an existing source, no
\* destination
C9_Witness ==
    /\ last.op = "replicate" /\ chain.list = <<>>
    /\ Exists(last.fs0, last.src) /\ ~Exists(last.fs0, last.dst)
    /\ Exists(fs, last.src) /\ ~Exists(fs, last.dst)
    /\ last.err.kind = "Unsupported"

(***************************************************************************)
(* C10: when overwrite is enabled and the removal of the existing          *)
(* destination fails, sort_file returns OverwriteError with the error of   *)
(* the removal and the rendered destination; no directory is made and the  *)
(* replicator is not invoked.                                              *)
(***************************************************************************)
C10_OverwriteErrorTerminal ==
    (/\ Sorted /\ ~PathEq(Dst, last.src)
     /\ Exists(last.fs0, Dst) /\ sorter.cfg.overwrite
     /\ RemoveDestination(last.fs0, Dst).out.err # NoErr) =>
        /\ last.result.t = "OverwriteError"
        /\ last.result.err = RemoveDestination(last.fs0, Dst).out.err
        /\ last.result.replicate_path = Dst
        /\ OpsAt("create_dir_all") = {}
        /\ OpsAt("replicate") = {}

\* tests::overwrite_error: the destination stands in a directory nothing
\* can be removed from
C10_Witness ==
    /\ Sorted /\ sorter.cfg.overwrite
    /\ Dst = PathMB
    /\ last.result.t = "OverwriteError"
    /\ last.result.err.kind = "PermissionDenied"
    /\ last.result.replicate_path = PathMB
    /\ fs = last.fs0

(***************************************************************************)
(* C11: when creating the destination's parent directory fails, sort_file  *)
(* returns ReplicateError with the error of create_dir_all and the         *)
(* rendered destination, and the replicator chain is not invoked; when the *)
(* replicator chain fails, sort_file returns ReplicateError with the       *)
(* chain's error and the rendered destination.                             *)
(***************************************************************************)
C11_ReplicateErrorCarriesCause ==
    Sorted =>
        /\ \A i \in OpsAt("create_dir_all") :
              last.ops[i].err # NoErr =>
                  /\ last.result = ReplicateError(last.ops[i].err, Dst)
                  /\ OpsAt("replicate") = {}
        /\ \A i \in OpsAt("replicate") :
              last.ops[i].err # NoErr =>
                  last.result = ReplicateError(last.ops[i].err, Dst)

\* the parent /m/e is missing in a directory nothing can be made in
C11_Witness ==
    /\ Sorted
    /\ Dst = <<"/", "m", "/", "e", "/", "a">>
    /\ last.fs0[<<"m", "e">>].t = "none"
    /\ Len(chain.list) >= 1
    /\ \E i \in OpsAt("create_dir_all") : last.ops[i].err = PermissionDenied
    /\ last.result.t = "ReplicateError"
    /\ last.result.err = PermissionDenied
    /\ OpsAt("replicate") = {}

(***************************************************************************)
(* C12: when rendering the destination template fails, sort_file returns   *)
(* TemplateError wrapping the render error; the destination's existence is *)
(* not looked up, nothing is removed, no directory is made, the replicator *)
(* is not invoked, and the filesystem is as it was.                        *)
(***************************************************************************)
C12_TemplateErrorTerminal ==
    (last.op = "sort" /\ ~last.rendered.ok) =>
        /\ last.result = TemplateError(last.rendered.err)
        /\ last.ops = <<>>
        /\ fs = last.fs0

\* tests::template_error: a template naming a variable sort_file does not
\* insert, over an existing source
C12_Witness ==
    /\ last.op = "sort"
    /\ sorter.cfg.template = <<Var("date")>>
    /\ Exists(last.fs0, last.src)
    /\ last.result.t = "TemplateError"
    /\ last.result.err = [t |-> "UndefinedVariable", name |-> "date"]
    /\ fs = last.fs0

(***************************************************************************)
(* C13: when building the variable context of a source fails, as it does   *)
(* when the source path cannot be canonicalized (a dangling symbolic link, *)
(* a missing file), sort_file returns TemplateContextError with the error  *)
(* of the build: the template is not rendered, nothing is removed or made, *)
(* the replicator is not invoked and the filesystem is as it was.          *)
(***************************************************************************)
\* the last call was a sort_file of the engine that builds a context
SortedWithContext == last.op = "sort_with_context"

Referenced(tokens) == { tokens[i].v : i \in { j \in 1..Len(tokens) : tokens[j].t = "Variable" } }

\* every referenced name is registered and its provider gives a value
AllResolve(tokens, ctx, f) ==
    \A n \in Referenced(tokens) :
        /\ ContextGet(ctx, n).some
        /\ ValueRender(ContextGet(ctx, n).value, n, ctx, f).t = "Ok"

\* what a token stands for: a literal for itself, a variable for the value
\* of its provider
Piece(tk, ctx, f) ==
    IF tk.t = "String" THEN tk.v
    ELSE ValueRender(ContextGet(ctx, tk.v).value, tk.v, ctx, f).v

\* the pieces of the first n tokens, one after the other
RECURSIVE Pieces(_, _, _, _)
Pieces(tokens, ctx, f, n) ==
    IF n = 0 THEN <<>>
    ELSE Pieces(tokens, ctx, f, n - 1) \o Piece(tokens[n], ctx, f)

\* a context without the names a template does not refer to
OnlyReferenced(tokens, ctx) ==
    [variables |-> [k \in DOMAIN ctx.variables \cap Referenced(tokens) |-> ctx.variables[k]],
     template_values |-> ctx.template_values]

\* the template ":x:/:y:" of tests::string
TextXSlashY == <<":", "x", ":", "/", ":", "y", ":">>

\* C14: when every referenced variable resolves, render returns the
\* concatenation, in token order, of each literal verbatim and each
\* variable's provider value; ":x:/:y:" parses to 3 tokens and renders to
\* "1/2" with x = "1" and y = "2"; the names that are registered and not
\* referenced do not change the result.
C14_RenderConcatenates ==
    /\ (input = TextXSlashY /\ parsed # NotParsed) =>
          /\ parsed.t = "Ok"
          /\ Len(parsed.tokens) = 3
    /\ \A r \in 1..Len(renders) :
          AllResolve(parsed.tokens, context, fs) =>
              /\ renders[r].t = "Ok"
              /\ renders[r].path = Pieces(parsed.tokens, context, fs, Len(parsed.tokens))
              /\ TemplateRender(parsed.tokens, OnlyReferenced(parsed.tokens, context), fs).t = "Ok"
              /\ TemplateRender(parsed.tokens, OnlyReferenced(parsed.tokens, context), fs).path
                     = renders[r].path
              /\ (/\ input = TextXSlashY
                  /\ ContextGet(context, "x").value = StringValue(<<"1">>)
                  /\ ContextGet(context, "y").value = StringValue(<<"2">>))
                     => renders[r].path = <<"1", "/", "2">>

\* ":x:/:y:" was rendered to "1/2" with x = "1" and y = "2"
C14_Witness ==
    /\ input = TextXSlashY
    /\ renders # <<>>
    /\ renders[1] = RenderedPath(<<"1", "/", "2">>, <<"x", "y">>)
    /\ ContextGet(context, "x") = [some |-> TRUE, value |-> StringValue(<<"1">>)]
    /\ ContextGet(context, "y") = [some |-> TRUE, value |-> StringValue(<<"2">>)]

\* the text has no delimiter
NoDelimiter(s) == \A i \in 1..Len(s) : s[i] # ":"

\* C15: parsing a text without the delimiter ':' yields zero tokens when
\* the text is empty, which renders to the empty path, and otherwise exactly
\* one literal token equal to the whole text.
C15_NoDelimiterOneLiteral ==
    (parsed # NotParsed /\ NoDelimiter(input)) =>
        /\ parsed.t = "Ok"
        /\ input = <<>> =>
              /\ Len(parsed.tokens) = 0
              /\ \A r \in 1..Len(renders) : renders[r] = RenderedPath(<<>>, <<>>)
        /\ input # <<>> =>
              /\ Len(parsed.tokens) = 1
              /\ parsed.tokens[1] = Str(input)

\* a text of several characters without delimiter was parsed and rendered
C15_Witness ==
    /\ Len(input) > 1
    /\ NoDelimiter(input)
    /\ parsed = Parsed(<<Str(input)>>)
    /\ renders # <<>>
    /\ renders[1].t = "Ok"
    /\ renders[1].path = input

\* the number of delimiters among the first k characters of a text
Delimiters(s, k) == Cardinality({ j \in 1..k : s[j] = ":" })

\* the delimiter at index i (from 0) closes a variable whose name is empty:
\* the character before it is the delimiter that opened the variable
UnnamedAt(s, i) ==
    /\ i >= 1
    /\ i < Len(s)
    /\ s[i + 1] = ":"
    /\ s[i] = ":"
    /\ Delimiters(s, i) % 2 = 1

NoUnnamed(s) == \A i \in 0..Len(s) : ~UnnamedAt(s, i)

\* the text ends in variable-name mode
EndsInVariable(s) == Delimiters(s, Len(s)) % 2 = 1 /\ NoUnnamed(s)

\* the texts without a character of several bytes
Ascii(s) == \A i \in 1..Len(s) : Width(s[i]) = 1

\* C16: parsing fails with UnclosedVariable exactly when the text ends in
\* variable-name mode (an odd number of delimiters and no unnamed variable
\* met earlier), and the index reported is the last index of the text,
\* its length less one: 2 for "x:y", 8 for ":date.day".
C16_UnclosedExactly ==
    parsed # NotParsed =>
        /\ EndsInVariable(input) => parsed = ParseFailed(UnclosedVariable(ByteLen(input) - 1))
        /\ (parsed.t = "Err" /\ parsed.err.t = "UnclosedVariable") => EndsInVariable(input)

\* what holds of the texts without a character of several bytes
C16_UnclosedExactlyAscii == Ascii(input) => C16_UnclosedExactly

\* ":date.day" was parsed
C16_Witness ==
    /\ input = <<":", "d", "a", "t", "e", ".", "d", "a", "y">>
    /\ parsed = ParseFailed(UnclosedVariable(8))

\* the index of the first delimiter that closes a variable without a name
FirstUnnamed(s) == CHOOSE i \in 0..Len(s) : UnnamedAt(s, i) /\ \A j \in 0..(i - 1) : ~UnnamedAt(s, j)

\* C17: parsing fails with UnnamedVariable(i) exactly when a delimiter at
\* index i closes a variable whose name is empty, i being the index of the
\* second of the two delimiters and the first such occurrence in the text;
\* two consecutive delimiters of which the first closes a variable and the
\* second opens the next one, as in ":x::y:", are accepted.
C17_UnnamedExactly ==
    parsed # NotParsed =>
        /\ ~NoUnnamed(input) => parsed = ParseFailed(UnamedVariable(FirstUnnamed(input)))
        /\ (parsed.t = "Err" /\ parsed.err.t = "UnamedVariable") =>
              /\ ~NoUnnamed(input)
              /\ parsed.err.index = FirstUnnamed(input)
        /\ input = <<":", "x", ":", ":", "y", ":">> => parsed = Parsed(<<Var("x"), Var("y")>>)

\* what holds of the texts without a character of several bytes
C17_UnnamedExactlyAscii == Ascii(input) => C17_UnnamedExactly

\* the places of the variable tokens whose name is not registered
Unregistered(tokens, ctx) ==
    { i \in 1..Len(tokens) : tokens[i].t = "Variable" /\ ~ContextGet(ctx, tokens[i].v).some }

\* the first of a set of places
First(places) == CHOOSE i \in places : \A j \in places : i <= j

\* the places of the variable tokens whose name is registered and whose
\* provider fails
Failing(tokens, ctx, f) ==
    { i \in 1..Len(tokens) :
        /\ tokens[i].t = "Variable"
        /\ ContextGet(ctx, tokens[i].v).some
        /\ ValueRender(ContextGet(ctx, tokens[i].v).value, tokens[i].v, ctx, f).t # "Ok" }

\* C18 as stated: rendering a template that references a name not
\* registered in the context fails with UndefinedVariable carrying exactly
\* that name, the first one in token order when several are unregistered.
C18_UndefinedVariable ==
    \A r \in 1..Len(renders) :
        Unregistered(parsed.tokens, context) # {} =>
            /\ renders[r].t = "Err"
            /\ renders[r].err
                   = UndefinedVariable(parsed.tokens[First(Unregistered(parsed.tokens, context))].v)

\* C18 amended: rendering a template that references a name not registered
\* in the context fails with UndefinedVariable carrying the first
\* unregistered name in token order, when no variable token before it has
\* a provider that fails; when one has, render fails with VariableRender
\* of that token and the unregistered name is not reported.
C18_UndefinedVariableUnlessFailedBefore ==
    \A r \in 1..Len(renders) :
        LET Decided(u, failing) ==
                /\ renders[r].t = "Err"
                /\ (\A i \in failing : u < i) =>
                       renders[r].err = UndefinedVariable(parsed.tokens[u].v)
                /\ (\E i \in failing : i < u) =>
                       /\ renders[r].err.t = "VariableRender"
                       /\ renders[r].err.name = parsed.tokens[First(failing)].v
        IN Unregistered(parsed.tokens, context) # {} =>
               Decided(First(Unregistered(parsed.tokens, context)),
                       Failing(parsed.tokens, context, fs))

\* a template of two names was rendered with the first registered, its
\* provider giving a value, and the second not
C18_Witness ==
    /\ parsed = Parsed(<<Var("x"), Var("y")>>)
    /\ ContextGet(context, "x") = [some |-> TRUE, value |-> StringValue(<<"1">>)]
    /\ ~ContextGet(context, "y").some
    /\ renders # <<>>
    /\ renders[1] = RenderFailed(UndefinedVariable("y"), <<"x">>)

\* the same template was rendered with the first name bound to a failing
\* provider and the second not registered
C18_FailedBefore ==
    /\ parsed = Parsed(<<Var("x"), Var("y")>>)
    /\ ContextGet(context, "x") = [some |-> TRUE, value |-> AlwaysFailTemplateValue]
    /\ ~ContextGet(context, "y").some
    /\ renders # <<>>
    /\ renders[1].err.t = "VariableRender"

\* the names of the variable tokens among the first n tokens, in order
RECURSIVE VariableNames(_, _)
VariableNames(tokens, n) ==
    IF n = 0 THEN <<>>
    ELSE IF tokens[n].t = "Variable"
         THEN Append(VariableNames(tokens, n - 1), tokens[n].v)
    ELSE VariableNames(tokens, n - 1)

\* C19: when the provider of a referenced variable fails, render fails with
\* VariableRender carrying that variable's name and the provider's error as
\* cause; rendering stops at the first failing token in token order: the
\* providers invoked are those of the variable tokens up to that one, and
\* the providers of the later tokens are not invoked.
C19_ProviderFailureStopsRender ==
    \A r \in 1..Len(renders) :
        LET Stopped(i) ==
                /\ renders[r].t = "Err"
                /\ renders[r].err.t = "VariableRender"
                /\ renders[r].err.name = parsed.tokens[i].v
                /\ renders[r].err.cause
                       = ValueRender(ContextGet(context, parsed.tokens[i].v).value,
                                     parsed.tokens[i].v, context, fs).err
                /\ renders[r].invoked = VariableNames(parsed.tokens, i)
            Reached(failing, unregistered) ==
                (failing # {} /\ \A u \in unregistered : First(failing) < u) =>
                    Stopped(First(failing))
        IN /\ Reached(Failing(parsed.tokens, context, fs),
                      Unregistered(parsed.tokens, context))
           /\ (renders[r].t = "Err" /\ renders[r].err.t = "VariableRender") =>
                  Failing(parsed.tokens, context, fs) # {}

\* a template of two names was rendered with the first bound to a failing
\* provider and the second to a value: the second provider was not invoked
C19_Witness ==
    /\ parsed = Parsed(<<Var("x"), Var("y")>>)
    /\ ContextGet(context, "x") = [some |-> TRUE, value |-> AlwaysFailTemplateValue]
    /\ ContextGet(context, "y") = [some |-> TRUE, value |-> StringValue(<<"1">>)]
    /\ renders # <<>>
    /\ renders[1] = RenderFailed(VariableRender("x", [t |-> "SimpleError", msg |-> "an error occurred"]),
                                 <<"x">>)

(***************************************************************************)
(* The watch mode (WatchSpec)                                              *)
(***************************************************************************)
\* an event was handled, by either handler
EventHandled == last.op \in {"handle_event", "handle_watch_event"}

\* the event is of a kind that is sorted: a file made, or closed after
\* writing
Candidate(event) == event.t = "Ok" /\ event.kind \in {CloseWrite, CreateFile}

\* what C21 says of the event handled last
AtMostOneSortOfCandidate ==
    /\ Len(last.sorts) <= 1
    /\ last.sorts # <<>> =>
          /\ Candidate(last.event)
          /\ last.event.paths # <<>>
          /\ last.sorts[1].path = last.event.paths[1]
          /\ Filter(event_filter, last.event) = FilterOk
    /\ (last.event.t = "Ok" /\ ~Candidate(last.event)) =>
          /\ last.result.t = "Ignored"
          /\ last.sorts = <<>>
          /\ fs = last.fs0

\* C21: the watch event handler invokes sort_file at most once per event,
\* on the first path of the event, and only for an event of kind file
\* created or closed after writing that passes the filter; every other kind
\* of event yields Ignored and no call of sort_file, whatever its paths.
C21_SortOnlyFilteredCandidates == EventHandled => AtMostOneSortOfCandidate

\* what holds of handle_event of watch.rs
C21_SortOnlyFilteredCandidatesHandleEvent ==
    last.op = "handle_event" => AtMostOneSortOfCandidate

\* handle_event sorted the first of the two paths of an event
C21_Witness ==
    /\ last.op = "handle_event"
    /\ Candidate(last.event)
    /\ Len(last.event.paths) = 2
    /\ Len(last.sorts) = 1
    /\ last.result.t = "Sort"

\* a candidate event without a path was handled
MissingPathHandled == EventHandled /\ Candidate(last.event) /\ last.event.paths = <<>>

\* C22: a candidate event (file created, or closed after writing) whose
\* list of paths is empty is reported as Filtered(MissingEventPath) and
\* never reaches sort_file; handling it does not panic.
C22_MissingPathFiltered ==
    MissingPathHandled =>
        /\ last.result = Filtered(MissingEventPath(last.event))
        /\ last.sorts = <<>>
        /\ fs = last.fs0

\* what holds of handle_event of watch.rs
C22_MissingPathFilteredHandleEvent == last.op = "handle_event" => C22_MissingPathFiltered

\* handle_watch_event of main.rs was handed a candidate event without path
C22_Panicked ==
    /\ last.op = "handle_watch_event"
    /\ MissingPathHandled
    /\ last.result.t = "Panic"

\* the first path of the event handled last is text that the configured
\* pattern matches
MatchesIgnoreRegex ==
    /\ event_filter.ignore_regex.some
    /\ ToStr(last.event.paths[1]).some
    /\ last.event.paths[1] \in event_filter.ignore_regex.matching

\* C23: for a candidate event and a configured ignore pattern, when the
\* text of the first path matches the pattern the event is reported as
\* Filtered(MatchIgnoreRegex) and sort_file is not invoked; when the path is
\* not valid UTF-8, or no pattern is configured, or the text does not
\* match, the event passes the filter and is sorted.
C23_IgnoreRegexFilters ==
    (last.op = "handle_event" /\ Candidate(last.event) /\ last.event.paths # <<>>) =>
        /\ MatchesIgnoreRegex =>
              /\ last.result = Filtered(MatchIgnoreRegex(last.event.paths[1]))
              /\ last.sorts = <<>>
              /\ fs = last.fs0
        /\ ~MatchesIgnoreRegex =>
              /\ last.result.t = "Sort"
              /\ last.result.path = last.event.paths[1]
              /\ last.sorts = <<SortCall(last.event.paths[1], last.result.result)>>

\* an event was filtered because its path matches the pattern
C23_Witness ==
    /\ last.op = "handle_event"
    /\ Candidate(last.event)
    /\ last.event.paths = <<PathWA, PathWB>>
    /\ event_filter.ignore_regex = Regex({PathWA})
    /\ last.result = Filtered(MatchIgnoreRegex(PathWA))

\* an event whose path is not valid UTF-8 was sorted although the pattern
\* matches every path
C23_NotUtf8Sorted ==
    /\ last.op = "handle_event"
    /\ Candidate(last.event)
    /\ last.event.paths = <<PathNotUtf8>>
    /\ PathNotUtf8 \in event_filter.ignore_regex.matching
    /\ last.result.t = "Sort"

(***************************************************************************)
(* C24: in batch mode a failure on a file (a template, overwrite or        *)
(* replicate error) or a directory that cannot be listed never aborts the  *)
(* run: every entry of every directory listed is still passed to           *)
(* sort_file, or listed in its turn when it is a directory, every source   *)
(* gets its turn, and the process exits only when no source is left.       *)
(***************************************************************************)
SortedBatch == last.op = "sort_cmd"

FailedCall(call) == call.result.t \notin {"Skipped", "Replicated"}

CalledWith(path) == \E c \in 1..Len(last.calls) : last.calls[c].path = path

WalkedInto(path) == \E w \in 1..Len(last.walks) : last.walks[w].dir = path

\* the source of the step was passed to sort_file or listed
SourceTaken ==
    IF IsDir(last.fs0, last.src)
    THEN last.walks # <<>> /\ last.walks[1].dir = last.src
    ELSE last.calls = <<SortCall(last.src, last.calls[1].result)>> /\ last.walks = <<>>

\* every entry of every listing was passed to sort_file or listed
EntriesTaken ==
    \A w \in 1..Len(last.walks) :
        \A i \in 1..Len(last.walks[w].entries) :
            \/ CalledWith(last.walks[w].entries[i])
            \/ WalkedInto(last.walks[w].entries[i])

\* sort_file is called once for each file found
CallsCounted ==
    Len(last.calls) =
        Cardinality({ <<w, i>> \in (1..Len(last.walks)) \X (1..Cardinality(Locs)) :
                        /\ i <= Len(last.walks[w].entries)
                        /\ ~WalkedInto(last.walks[w].entries[i]) })
            + (IF last.walks = <<>> THEN 1 ELSE 0)

C24_FailureNeverAborts ==
    /\ status # None => sources = <<>>
    /\ SortedBatch => SourceTaken /\ EntriesTaken /\ CallsCounted

\* a directory of three entries was listed, the first call of sort_file
\* failed and every entry was taken all the same; and a directory that
\* cannot be listed was met while a file next to it was sorted
C24_Witness ==
    /\ SortedBatch
    /\ \/ /\ last.src = PathW
          /\ Len(last.walks[1].entries) = 3
          /\ FailedCall(last.calls[1])
          /\ Len(last.calls) = 3
       \/ /\ last.src = PathM
          /\ \E w \in 1..Len(last.walks) : last.walks[w].err # NoErr
          /\ CalledWith(PathMB)

(***************************************************************************)
(* C25: in batch mode the exit status of the process is not zero when at   *)
(* least one file or one listing of a directory failed, and zero when      *)
(* none failed, whatever the number of failures.                           *)
(***************************************************************************)
Exited == status # None

C25_ExitStatusTellsFailure == Exited => (status = 0 <=> RunFailures = 0)

\* what the code does: the exit code counts the failures, and the exit
\* status is its low byte
C25_ExitStatusLowByte ==
    /\ exit_code = RunFailures
    /\ Exited => status = RunFailures % ExitStatusModulus

\* the run of 256 failures that exits with the status 0
C25_FailuresExitZero == Exited /\ RunFailures = ExitStatusModulus /\ status = 0

\* a run with failures that exits with a status that is not zero
C25_FailuresExitNonZero == Exited /\ RunFailures > 0 /\ status # 0

(***************************************************************************)
(* C26: after any sequence of Context::insert calls every registered name  *)
(* resolves through get to one provider of the provider list;              *)
(* insert(names, p) with names makes every name of the list resolve to p   *)
(* and leaves the binding of every other name as it was; insert without a  *)
(* name panics before it changes the context.                              *)
(***************************************************************************)
Inserted == last.op = "insert"

KeysOf(keys) == { keys[j] : j \in 1..Len(keys) }

Registered(ctx) == DOMAIN ctx.variables

\* every registered name is bound to the index of a provider of the list,
\* and get returns that provider
RegistryResolves(ctx) ==
    \A k \in Registered(ctx) :
        /\ ctx.variables[k] \in 0..(Len(ctx.template_values) - 1)
        /\ ContextGet(ctx, k) = [some |-> TRUE, value |-> ctx.template_values[ctx.variables[k] + 1]]

C26_InsertBindsNames ==
    /\ RegistryResolves(context)
    /\ \A k \in {"x", "y", "z"} \ Registered(context) : ContextGet(context, k) = NoValue
    /\ Inserted =>
        /\ last.panicked <=> last.keys = <<>>
        /\ last.panicked => context = last.before
        /\ ~last.panicked =>
            /\ Registered(context) = Registered(last.before) \cup KeysOf(last.keys)
            /\ \A k \in KeysOf(last.keys) :
                  ContextGet(context, k) = [some |-> TRUE, value |-> last.value]
            /\ \A k \in Registered(last.before) \ KeysOf(last.keys) :
                  ContextGet(context, k) = ContextGet(last.before, k)
            /\ Len(context.template_values) = Len(last.before.template_values) + 1

\* x and y were bound to one provider, then x alone to another
C26_Witness ==
    /\ Inserted
    /\ last.keys = <<"x">>
    /\ Registered(last.before) = {"x", "y"}
    /\ ContextGet(context, "x").value # ContextGet(context, "y").value

\* an insert without a name panicked
C26_EmptyInsertPanicked == Inserted /\ last.keys = <<>> /\ last.panicked

(***************************************************************************)
(* C27: in every context built for a source file the filesystem-metadata   *)
(* provider is registered under the four names file.md.creation_date,      *)
(* file.md.creation_date.year, .month and .day, so that a template that    *)
(* references one of them does not fail with UndefinedVariable.            *)
(***************************************************************************)
\* the context is as prepare_template_context built it
Built == last.ok /\ last.registered = 0

Rendered == last.op = "render"

C27_MetadataNamesRegistered ==
    /\ Built =>
          \A name \in FileMdNames :
              ContextGet(context, name) = [some |-> TRUE, value |-> FileMetadataTemplateValue]
    /\ Built /\ Rendered /\ last.name \in FileMdNames =>
          ~(renders[1].t = "Err" /\ renders[1].err = UndefinedVariable(last.name))

\* what the code does: of the four names, file.md.creation_date alone is
\* registered
C27_OnlyCreationDateRegistered ==
    Built =>
        /\ ContextGet(context, "file.md.creation_date")
              = [some |-> TRUE, value |-> FileMetadataTemplateValue]
        /\ \A name \in FileMdNames \ {"file.md.creation_date"} :
              /\ ~ContextGet(context, name).some
              /\ Rendered /\ last.name = name =>
                    renders[1] = RenderFailed(UndefinedVariable(name), <<>>)

\* the year of the creation date was rendered in a built context and
\* failed with UndefinedVariable
C27_YearUndefined ==
    /\ Built
    /\ Rendered
    /\ last.name = "file.md.creation_date.year"
    /\ renders[1] = RenderFailed(UndefinedVariable("file.md.creation_date.year"), <<>>)

\* the creation date was rendered in a built context
C27_CreationDateRendered ==
    /\ Built
    /\ Rendered
    /\ last.name = "file.md.creation_date"
    /\ renders[1].t = "Ok"
    /\ renders[1].path = CreationDate

(***************************************************************************)
(* C28: for each composite name (date, date.year, date.month, date.day)    *)
(* the provider returns the value of the exif variable of the same facet   *)
(* when that one is registered and renders, otherwise the value of the     *)
(* filesystem creation date of the same facet when that one renders; it    *)
(* fails only when both candidates are unregistered or fail, and the error *)
(* lists both candidate names in priority order.                           *)
(***************************************************************************)
ExifCandidate(name) == "exif." \o name

CreationCandidate(name) == "file.md.creation_" \o name

\* the candidate is registered and its provider renders it
Renders(candidate) ==
    /\ ContextGet(context, candidate).some
    /\ ValueRender(ContextGet(context, candidate).value, candidate, context, fs).t = "Ok"

RenderOf(candidate) ==
    ValueRender(ContextGet(context, candidate).value, candidate, context, fs).v

CompositeRendered == Rendered /\ last.name \in DateNames

C28_FirstCandidateThatRenders ==
    CompositeRendered =>
        IF Renders(ExifCandidate(last.name))
        THEN renders[1] = RenderedPath(RenderOf(ExifCandidate(last.name)), <<last.name>>)
        ELSE IF Renders(CreationCandidate(last.name))
        THEN renders[1] = RenderedPath(RenderOf(CreationCandidate(last.name)), <<last.name>>)
        ELSE renders[1] =
                 RenderFailed(
                     VariableRender(last.name,
                         [t |-> "GetOneOfErr",
                          keys |-> <<ExifCandidate(last.name), CreationCandidate(last.name)>>]),
                     <<last.name>>)

\* the container of the source has no DateTime field: the exif candidate
\* is registered and fails, and date is the creation date
C28_Witness ==
    /\ CompositeRendered
    /\ last.name = "date"
    /\ ContextGet(context, "exif.date").some
    /\ ~Renders("exif.date")
    /\ renders[1] = RenderedPath(CreationDate, <<"date">>)

\* the month of the DateTime field of the container is rendered
C28_ExifFirst ==
    /\ CompositeRendered
    /\ last.name = "date.month"
    /\ renders[1] = RenderedPath(<<"0", "3">>, <<"date.month">>)

\* a registered creation year is rendered when the exif year fails
C28_CreationFacet ==
    /\ CompositeRendered
    /\ last.name = "date.year"
    /\ ContextGet(context, "exif.date.year") = [some |-> TRUE, value |-> AlwaysFailTemplateValue]
    /\ renders[1] = RenderedPath(<<"7">>, <<"date.year">>)

\* both candidates fail: the source was removed and has no container
C28_BothFail ==
    /\ CompositeRendered
    /\ last.name = "date"
    /\ last.removed
    /\ renders[1].t = "Err"

(***************************************************************************)
(* C29: the extraction of the date of a file name finds a date in every    *)
(* name that contains YYYY-MM-DD, YYYY_MM_DD or YYYYMMDD with a month in   *)
(* 01..12 and any day in 01..31 (10, 20 and 30 too), and finds none        *)
(* (DateNotFound) when the name only holds a year of 2 or 3 digits, a      *)
(* month 00 or 13, a month or day of one digit, or a day 00 or above 31.   *)
(***************************************************************************)
\* the source and its file name
Source == Head(sources)

SourceName == FileName(Source).val

InPlainDir == Parent(Source).comps = <<JoinChars(PlainDir)>>

\* two digits at index i of a text that stand for a number from lo to hi
TwoDigits(t, i, lo, hi) ==
    /\ IsDigit(CharAt(t, i))
    /\ IsDigit(CharAt(t, i + 1))
    /\ Number(SubSeq(t, i, i + 1)) \in lo..hi

\* a year of four digits, a month and a day at index i, sep between them
DateAt(t, i, sep) ==
    /\ \A k \in i..(i + 3) : IsDigit(CharAt(t, k))
    /\ SubSeq(t, i + 4, i + 3 + Len(sep)) = sep
    /\ TwoDigits(t, i + 4 + Len(sep), 1, 12)
    /\ SubSeq(t, i + 6 + Len(sep), i + 5 + 2 * Len(sep)) = sep
    /\ TwoDigits(t, i + 6 + 2 * Len(sep), 1, 31)

\* the name contains YYYY-MM-DD, YYYY_MM_DD or YYYYMMDD
HoldsDate(t) == \E i \in 1..Len(t), sep \in NameSeparators : DateAt(t, i, sep)

\* the date the name contains
HeldDate(t) ==
    LET At(i, sep) ==
            Date(Number(SubSeq(t, i, i + 3)),
                 Number(SubSeq(t, i + 4 + Len(sep), i + 5 + Len(sep))),
                 Number(SubSeq(t, i + 6 + 2 * Len(sep), i + 7 + 2 * Len(sep))))
        Where(w) == At(w[1], w[2])
    IN Where(CHOOSE w \in (1..Len(t)) \X NameSeparators : DateAt(t, w[1], w[2]))

\* a year, a month and a day of digits with or without separators, whatever
\* their ranges: the name holds something that looks like a date
DateLike(t) ==
    \E i \in 1..Len(t), s1 \in NameSeparators, s2 \in NameSeparators :
        /\ \A k \in i..(i + 3) : IsDigit(CharAt(t, k))
        /\ SubSeq(t, i + 4, i + 3 + Len(s1)) = s1
        /\ TwoDigits(t, i + 4 + Len(s1), 1, 12)
        /\ SubSeq(t, i + 6 + Len(s1), i + 5 + Len(s1) + Len(s2)) = s2
        /\ TwoDigits(t, i + 6 + Len(s1) + Len(s2), 1, 31)

DateRendered == Rendered /\ last.name = "file.name.date"

DateNotFoundRendered ==
    renders[1] = RenderFailed(VariableRender("file.name.date", DateNotFound), <<"file.name.date">>)

C29_DateFoundInEveryName ==
    DateRendered /\ InPlainDir /\ ToStr(SourceName).some =>
        /\ HoldsDate(SourceName) => renders[1].t = "Ok"
        /\ ~DateLike(SourceName) => DateNotFoundRendered

\* what the code does: the days 10 and 20 are not found, a day the month
\* does not have fails to parse, any other date is found and rendered
C29_DateFoundButTenAndTwenty ==
    DateRendered /\ InPlainDir /\ ToStr(SourceName).some =>
        /\ HoldsDate(SourceName) =>
              IF HeldDate(SourceName).day \in {10, 20} THEN DateNotFoundRendered
              ELSE IF HeldDate(SourceName).day
                        > DaysIn(HeldDate(SourceName).year, HeldDate(SourceName).month)
              THEN renders[1] = RenderFailed(VariableRender("file.name.date", ParseError),
                                             <<"file.name.date">>)
              ELSE renders[1] = RenderedPath(FormatDate(HeldDate(SourceName)), <<"file.name.date">>)
        /\ ~DateLike(SourceName) => DateNotFoundRendered

\* a name that holds the day 10 in which no date is found
C29_DayTenNotFound ==
    /\ DateRendered
    /\ SourceName = DatedName(<<"2", "0", "2", "2">>, <<"-">>, <<"1", "1">>, <<"1", "0">>)
    /\ DateNotFoundRendered

\* a name that holds the day 30 in which the date is found
C29_DayThirtyFound ==
    /\ DateRendered
    /\ SourceName = DatedName(<<"2", "0", "2", "2">>, <<>>, <<"1", "1">>, <<"3", "0">>)
    /\ renders[1] = RenderedPath(<<"2", "0", "2", "2", "-", "1", "1", "-", "3", "0">>,
                                 <<"file.name.date">>)

\* a name with a year of two digits in which no date is found
C29_ShortYearNotFound ==
    /\ DateRendered
    /\ SourceName = DatedName(<<"2", "2">>, <<"-">>, <<"1", "1">>, <<"0", "1">>)
    /\ DateNotFoundRendered

(***************************************************************************)
(* C30: the date variables of the file name (file.name.date and its year,  *)
(* month and day) are computed from the file name component of the source  *)
(* path only: when the file name holds no date pattern they fail with      *)
(* DateNotFound, even if the name of a parent directory holds one.         *)
(***************************************************************************)
NameDateRendered == Rendered /\ last.name \in FileNameDateNames

InDatedDir == Parent(Source).comps = <<JoinChars(DatedDir)>>

C30_DateOfFileNameOnly ==
    NameDateRendered /\ ToStr(Source).some /\ ~DateLike(SourceName) =>
        renders[1] = RenderFailed(VariableRender(last.name, DateNotFound), <<last.name>>)

\* what the code does: the pattern is searched in the whole path, and the
\* date of the directory, which comes first, is the one found
C30_DateOfWholePath ==
    NameDateRendered /\ ToStr(Source).some /\ InDatedDir =>
        renders[1] = RenderedPath(DateFacet(Date(2021, 5, 6), FacetOf(last.name)), <<last.name>>)

\* the file a.jpg of the directory 2021-05-06 gets the date of the
\* directory
C30_DirectoryDateRendered ==
    /\ NameDateRendered
    /\ last.name = "file.name.date"
    /\ SourceName = <<"a", ".", "j", "p", "g">>
    /\ renders[1] = RenderedPath(DatedDir, <<"file.name.date">>)

\* the file a.jpg of the directory w has no date
C30_PlainDirectoryNotFound ==
    /\ NameDateRendered
    /\ last.name = "file.name.date.year"
    /\ SourceName = <<"a", ".", "j", "p", "g">>
    /\ InPlainDir
    /\ renders[1] = RenderFailed(VariableRender(last.name, DateNotFound), <<last.name>>)

(***************************************************************************)
(* C31: a provider that needs the source path and finds the private        *)
(* variable :file.path unregistered returns a missing-variable error,      *)
(* which render reports as a variable-render failure, for every one of its *)
(* facets (file.path, file.name, file.stem, file.extension, the dates of   *)
(* the file name, the creation dates); it never panics.                    *)
(***************************************************************************)
PathMissing == ~ContextGet(context, ":file.path").some

PreparedWithoutPath == last.op = "variables_prepare" /\ PathMissing

RenderedWithoutPath == last.op = "render_unprepared" /\ PathMissing

MissingPathReported ==
    renders[1] = RenderFailed(VariableRender(last.name, MissingVariable(":file.path")),
                              <<last.name>>)

C31_MissingPathNeverPanics ==
    /\ PreparedWithoutPath => last.err # UnwrapNone
    /\ RenderedWithoutPath => MissingPathReported

\* what the code does: the build panics in the exif provider; of the names
\* left registered, file.path and the creation date report the missing
\* variable, and every name that goes through filepathbuf panics
C31_MissingPathPanicsButPathAndCreationDate ==
    /\ PreparedWithoutPath => last.err = UnwrapNone /\ ~last.built
    /\ RenderedWithoutPath =>
          IF last.name \in {"file.path", "file.md.creation_date"}
          THEN MissingPathReported
          ELSE renders[1] = RenderPanicked(<<last.name>>)

\* file.name was rendered without the private path, and panicked
C31_FileNamePanicked ==
    /\ RenderedWithoutPath
    /\ last.name = "file.name"
    /\ renders[1] = RenderPanicked(<<"file.name">>)

\* file.path was rendered without the private path, and the missing
\* variable was reported
C31_FilePathReported ==
    /\ RenderedWithoutPath
    /\ last.name = "file.path"
    /\ MissingPathReported

(***************************************************************************)
(* C32: while a context is built, the absence of embedded metadata is kept *)
(* apart from an I/O failure: an I/O error while the file is opened or     *)
(* read makes the build fail; a missing or unparsable container makes the  *)
(* build succeed with no exif name registered; a container without the     *)
(* date field leaves the exif names registered and makes their rendering   *)
(* fail with a field-missing error.                                        *)
(***************************************************************************)
\* the context was built by prepare_template_context and the source is as
\* it was then
JustPrepared == last.op = "prepare"

SourceEntry == Stat(fs, Head(sources))

ExifRendered ==
    /\ Rendered
    /\ last.registered = 0
    /\ last.name \in ExifNames

C32_AbsenceIsNotIoFailure ==
    /\ JustPrepared /\ SourceEntry.t = "dir" => ~last.ok /\ last.err = IsADirectory
    /\ JustPrepared /\ SourceEntry.t = "file" =>
          /\ last.ok
          /\ SourceEntry.data \notin {"J", "K"} =>
                \A name \in ExifNames : ~ContextGet(context, name).some
          /\ SourceEntry.data \in {"J", "K"} =>
                \A name \in ExifNames : ContextGet(context, name).some
    /\ ExifRendered /\ ContextGet(context, last.name).some
          /\ ~ContextGet(context, last.name).value.exif.datetime.some =>
                renders[1] = RenderFailed(VariableRender(last.name, MissingField("DateTime")),
                                          <<last.name>>)
    /\ ExifRendered /\ ~ContextGet(context, last.name).some =>
          renders[1] = RenderFailed(UndefinedVariable(last.name), <<>>)

\* the container of the source has no date field, and the month of exif
\* failed to render with the field-missing error
C32_Witness ==
    /\ ExifRendered
    /\ last.name = "exif.date.month"
    /\ renders[1] = RenderFailed(VariableRender("exif.date.month", MissingField("DateTime")),
                                 <<"exif.date.month">>)

\* the source is a directory, and the build failed with the I/O error
C32_IoFailure == JustPrepared /\ ~last.ok /\ last.err = IsADirectory

\* the source has no container, the build succeeded and exif.date is not
\* registered
C32_NoContainer ==
    /\ JustPrepared
    /\ last.ok
    /\ SourceEntry.data = "A"
    /\ ~ContextGet(context, "exif.date").some

\* what from_iter's chain of the same list does on the same call
FromIterOutcome == Replicate(FromIter(chain.list), last.fs0, last.src, last.dst)

\* the kinds of a log of attempts, in order
KindsOf(attempts) == [k \in 1..Len(attempts) |-> attempts[k].kind]

\* the kinds of the configured sequence, in order
Sequence == [k \in 1..Len(chain.list) |-> chain.list[k].t]

\* a sequence was deserialized and the replicator it gave was called
DeserializedRan == last.op = "replicate" /\ chain.replicator # NotDeserialized

\* s is a prefix of t
IsPrefix(s, t) == Len(s) <= Len(t) /\ SubSeq(t, 1, Len(s)) = s

(***************************************************************************)
(* C33: a replicator deserialized from a sequence [k1, ..., kn] behaves    *)
(* like the chain from_iter builds from the same list: deserializing       *)
(* gives a replicator, whose every call attempts the same strategies in    *)
(* the same order, k1 first and the sentinel last, and succeeds exactly    *)
(* when from_iter's chain does, from the same filesystem.                  *)
(***************************************************************************)
C33_DeserializedLikeFromIter ==
    /\ last.op = "deserialize" => last.ok
    /\ DeserializedRan =>
        /\ KindsOf(last.attempts) = KindsOf(FromIterOutcome.attempts)
        /\ (last.err = NoErr) <=> (FromIterOutcome.err = NoErr)
        /\ fs = FromIterOutcome.fs

\* what the code does instead: an empty sequence is refused; the strategies
\* are held last element first, without the sentinel; a call attempts them
\* in that order and never attempts the sentinel
C33_DeserializedIsReversedWithoutSentinel ==
    /\ last.op = "deserialize" => (last.ok <=> chain.list # <<>>)
    /\ chain.replicator # NotDeserialized =>
        Strategies(chain.replicator) = Reverse(Sequence)
    /\ DeserializedRan =>
        /\ IsPrefix(KindsOf(last.attempts), Reverse(Sequence))
        /\ \A k \in 1..Len(last.attempts) : last.attempts[k].kind # "none"

\* a sequence of two different kinds ran its last kind first and succeeded
\* with it
C33_LastKindFirst ==
    /\ DeserializedRan
    /\ Len(Sequence) = 2
    /\ Sequence[1] # Sequence[2]
    /\ last.attempts[1].kind = Sequence[2]
    /\ last.err = NoErr

\* every strategy of a deserialized sequence failed, and no sentinel was
\* attempted after them
C33_FailedWithoutSentinel ==
    /\ DeserializedRan
    /\ last.err # NoErr
    /\ Len(last.attempts) = Len(Sequence)

\* an empty sequence was refused
C33_EmptyRefused ==
    /\ last.op = "deserialize"
    /\ chain.list = <<>>
    /\ ~last.ok

\* path p is the entry e or lies under it
Under(p, e) == p = e \/ IsPrefix(Append(e, "/"), p)

\* the calls of sort_file and the listings made for an entry or under it
CallsUnder(e) == { c \in 1..Len(last.calls) : Under(last.calls[c].path, e) }

WalksUnder(e) == { w \in 1..Len(last.walks) : Under(last.walks[w].dir, e) }

CallsOf(e) == { c \in 1..Len(last.calls) : last.calls[c].path = e }

WalksOf(e) == { w \in 1..Len(last.walks) : last.walks[w].dir = e }

\* the entries of the listings of the step, and its source
Taken ==
    {last.src} \cup
        { last.walks[w].entries[i] :
            <<w, i>> \in { x \in (1..Len(last.walks)) \X (1..Cardinality(Locs)) :
                             x[2] <= Len(last.walks[x[1]].entries) } }

\* a directory is listed once and never passed to sort_file, anything else
\* is passed to sort_file once and never listed; nothing else is
OnceEach ==
    /\ \A e \in Taken :
          IF IsDir(last.fs0, e)
          THEN Cardinality(WalksOf(e)) = 1 /\ CallsOf(e) = {}
          ELSE Cardinality(CallsOf(e)) = 1 /\ WalksOf(e) = {}
    /\ \A c \in 1..Len(last.calls) : last.calls[c].path \in Taken
    /\ \A w \in 1..Len(last.walks) : last.walks[w].dir \in Taken

\* all that is done for an entry and under it is done before anything is
\* done for an entry that comes later in the same listing
DepthFirst ==
    \A w \in 1..Len(last.walks) :
        \A i, j \in 1..Len(last.walks[w].entries) :
            i < j =>
                LET Before(a, b) ==
                        /\ \A c \in CallsUnder(a), d \in CallsUnder(b) : c < d
                        /\ \A c \in WalksUnder(a), d \in WalksUnder(b) : c < d
                IN Before(last.walks[w].entries[i], last.walks[w].entries[j])

\* the entries of a listing are gone through last listed first, and every
\* entry the directory held when the step began is among them
ReverseListingOrder ==
    \A w \in 1..Len(last.walks) :
        LET GoneThrough(dir, entries) ==
                /\ entries =
                       SelectSeq(Reverse([k \in 1..Len(last.order) |-> Join(dir, last.order[k])]),
                                 LAMBDA e : \E i \in 1..Len(entries) : entries[i] = e)
                /\ LET held == ReadDir(last.fs0, dir, last.order).entries
                   IN \A k \in 1..Len(held) : \E i \in 1..Len(entries) : entries[i] = held[k]
        IN last.walks[w].err = NoErr => GoneThrough(last.walks[w].dir, last.walks[w].entries)

\* no more listings are made than the tree has directories, the source
\* included when it cannot be listed
ListingsBounded ==
    Len(last.walks) <= Cardinality({ l \in Locs : EntryAt(last.fs0, l).t = "dir" })

\* whatever the order of the listings, the step of sort_cmd for the next
\* source returns, with an exit code and the calls it made
NextSourceReturns ==
    \A order \in ReadDirOrders :
        LET Returns(o) == o.exit_code \in 0..I32Max /\ Len(o.walks) <= Cardinality(Locs)
        IN Returns(SortSource(sorter.cfg, fs, Head(sources), order))

\* what the run has left to do: the sources to go through, and the exit
StepsLeft == Len(sources) + (IF status = None THEN 1 ELSE 0)

(***************************************************************************)
(* C34: the batch sorting of a directory tree without symbolic links to    *)
(* directories terminates: every step of sort_cmd returns, after listing   *)
(* no more directories than the tree holds, every step leaves the run less *)
(* to do, and the run can go on until it has exited.  A step calls         *)
(* sort_file once for each entry of a listing that is not a directory,     *)
(* lists each directory once, does all there is to do under an entry       *)
(* before it goes to the next entry of the same listing, and goes through  *)
(* the entries of a directory last listed first.                           *)
(***************************************************************************)
C34_DepthFirstReverseOnce ==
    /\ [](SortedBatch => OnceEach /\ DepthFirst /\ ReverseListingOrder /\ ListingsBounded)
    /\ [](status = None /\ sources # <<>> => NextSourceReturns)
    /\ [][StepsLeft' < StepsLeft]_vars

\* /w, listed as a, b, d, was sorted: d and what it holds, then b and what
\* it holds, then a
C34_Witness ==
    /\ SortedBatch
    /\ last.src = PathW
    /\ last.order[1] = "a"
    /\ [c \in 1..Len(last.calls) |-> last.calls[c].path]
           = <<PathWDA, <<"/", "w", "/", "b", "/", "c">>, PathWA>>
    /\ [w \in 1..Len(last.walks) |-> last.walks[w].dir]
           = <<PathW, <<"/", "w", "/", "d">>, PathWB>>

\* sort_file, of either engine, was called on a source that was a file
SortedAFile ==
    /\ last.op \in {"sort", "sort_with_context"}
    /\ Stat(last.fs0, last.src).t = "file"

(***************************************************************************)
(* C35: after any call of sort_file on a source that is a file, whatever   *)
(* the outcome, the template, the replicators and the overwrite flag, the  *)
(* source is still a file and holds the content it held before the call.   *)
(***************************************************************************)
C35_SourceKept ==
    SortedAFile =>
        /\ Stat(fs, last.src).t = "file"
        /\ Stat(fs, last.src).data = Stat(last.fs0, last.src).data

\* without overwrite the source is kept
C35_SourceKeptWithoutOverwrite ==
    (SortedAFile /\ ~sorter.cfg.overwrite) =>
        /\ Stat(fs, last.src).t = "file"
        /\ Stat(fs, last.src).data = Stat(last.fs0, last.src).data

\* with overwrite the source is lost only when the destination is another
\* text of its own path
C35_SourceLostOnlyThroughDestination ==
    (SortedAFile /\ last.op = "sort" /\ Stat(fs, last.src) # Stat(last.fs0, last.src)) =>
        /\ sorter.cfg.overwrite
        /\ last.rendered.ok
        /\ Dst # last.src
        /\ Loc(Dst) = Loc(last.src)

\* the source "a" was sorted with overwrite to "/w/a", its own path: it was
\* removed as the destination and no replicator could bring it back
C35_SourceRemoved ==
    /\ SortedAFile
    /\ last.op = "sort"
    /\ last.src = PathA
    /\ last.rendered.ok /\ Dst = PathWA
    /\ Stat(fs, last.src).t = "none"
    /\ last.result.t = "ReplicateError"

\* sort_file returned after another process had created the destination
\* between its existence test and its replicator
Raced == last.op = "sort" /\ last.raced

\* the strategies the replicator of the last sort attempted, by kind
KindsAttempted == { Attempts[k].kind : k \in 1..Len(Attempts) }

(***************************************************************************)
(* C36: with overwrite disabled, a destination that another process        *)
(* creates after the existence test of sort_file and before the replicator *)
(* runs keeps its content, whatever the replicators; sort_file does not    *)
(* report it replicated.                                                   *)
(***************************************************************************)
C36_RacedDestinationKept ==
    (Raced /\ ~sorter.cfg.overwrite) =>
        /\ EntryAt(fs, Loc(Dst)) = EntryAt(last.before, Loc(Dst))
        /\ last.result.t # "Replicated"

\* what holds: the links never replace the destination; only a copy that
\* is attempted and succeeds does, and sort_file then reports Replicated
C36_OnlyCopyReplaces ==
    (Raced /\ ~sorter.cfg.overwrite) =>
        /\ "copy" \notin KindsAttempted =>
              /\ EntryAt(fs, Loc(Dst)) = EntryAt(last.before, Loc(Dst))
              /\ last.result.t = "ReplicateError"
        /\ EntryAt(fs, Loc(Dst)) # EntryAt(last.before, Loc(Dst)) =>
              /\ Attempts[Len(Attempts)].kind = "copy"
              /\ last.result = Replicated(Dst, FALSE)

\* the copy replaced the content the other process had written
C36_CopyOverwroteRaced ==
    /\ Raced
    /\ ~sorter.cfg.overwrite
    /\ EntryAt(last.before, Loc(Dst)).data = OtherData
    /\ EntryAt(fs, Loc(Dst)).data = "A"
    /\ last.result = Replicated(Dst, FALSE)

\* a link failed on the destination the other process had created
C36_LinkRefusedRaced ==
    /\ Raced
    /\ ~sorter.cfg.overwrite
    /\ KindsAttempted \subseteq {"hardlink", "softlink", "none"}
    /\ Attempts[1].err = AlreadyExists
    /\ EntryAt(fs, Loc(Dst)).data = OtherData

\* a step in which sort_file is called again on the source, a file, it has
\* just replicated to a destination that is not the source
SortedAgain ==
    /\ Sorted
    /\ Stat(fs, last.src).t = "file"
    /\ last.result.t = "Replicated"
    /\ Loc(Dst) # Loc(last.src)
    /\ last'.op = "sort"
    /\ last'.src = last.src

\* what the claim says of the second call
SecondCallAsClaimed ==
    IF sorter.cfg.overwrite
    THEN last'.result = Replicated(Dst, TRUE)
    ELSE last'.result = Skipped(Dst, "Overwrite") /\ fs' = fs

(***************************************************************************)
(* C37: when sort_file has returned Replicated for a destination that is   *)
(* not the source and is called again on the same source, then with        *)
(* overwrite disabled the second call returns Skipped with the reason      *)
(* Overwrite and changes nothing, and with overwrite enabled it returns    *)
(* Replicated with overwrite = true; for every list of replicators and     *)
(* every source path, a relative one included.                             *)
(***************************************************************************)
C37_SecondSortSkipsOrOverwrites == [][SortedAgain => SecondCallAsClaimed]_vars

\* what holds: the second call is as claimed whenever the destination the
\* first call made leads to a file; when it does not (a soft link whose
\* relative target does not resolve from the destination's directory) the
\* second call finds no destination, the soft link fails on the entry that
\* is there, and the call fails unless a copy comes after it
C37_SecondSortWhenDestinationResolves ==
    [][SortedAgain =>
          IF Exists(fs, Dst) THEN SecondCallAsClaimed
          ELSE /\ Lstat(fs, Loc(Dst)).t = "lnk"
               /\ ~IsAbs(last.src)
               /\ last'.result.t \in {"ReplicateError", "Replicated"}
               /\ last'.result.t = "Replicated" => last'.result.overwrite = FALSE]_vars

\* the tokens written back as a text: a literal as it is, a variable
\* between two delimiters
RECURSIVE WrittenBack(_)
WrittenBack(tokens) ==
    IF tokens = <<>> THEN ""
    ELSE (IF Head(tokens).t = "String" THEN JoinChars(Head(tokens).v)
          ELSE ":" \o Head(tokens).v \o ":") \o WrittenBack(Tail(tokens))

(***************************************************************************)
(* C38: from_str never panics, whatever the text, characters of several    *)
(* bytes included; and the tokens of every text that parses, written back  *)
(* in order, a literal as it is and a variable as ':name:', are the text.   *)
(***************************************************************************)
C38_RoundTripNoPanic ==
    parsed # NotParsed =>
        /\ parsed # ParsePanicked
        /\ parsed.t = "Ok" => WrittenBack(parsed.tokens) = JoinChars(input)

\* what holds: the texts of one-byte characters never panic and are written
\* back as they were; a text that panics or is written back otherwise holds
\* a character of several bytes before its last delimiter
C38_RoundTripAscii ==
    parsed # NotParsed =>
        /\ Ascii(input) => C38_RoundTripNoPanic
        /\ ~C38_RoundTripNoPanic =>
              \E i, j \in 1..Len(input) : i < j /\ input[i] = TwoByteChar /\ input[j] = ":"

\* the parser panicked on a character of two bytes followed by a delimiter
C38_Panicked ==
    /\ input = <<TwoByteChar, ":">>
    /\ parsed = ParsePanicked

\* a variable named by two characters of two bytes was parsed without
\* panic, and its name is the first of them only
C38_NameCut ==
    /\ input = <<":", TwoByteChar, TwoByteChar, ":">>
    /\ parsed = Parsed(<<Var(TwoByteChar)>>)

\* a text of one-byte characters with literals and variables was parsed and
\* is written back as it was
C38_WrittenBack ==
    /\ input = <<":", "x", ":", "/", ":", "y", ":">>
    /\ parsed.t = "Ok"
    /\ WrittenBack(parsed.tokens) = ":x:/:y:"

\* the two modes of from_str
LiteralMode == last.string_start_index # None

VariableMode == last.variable_start_index # None

\* from_str returned a template
ParsedOk == parsed # NotParsed /\ parsed.t = "Ok"

\* the names of the variables of the template from_str returned
ParsedNames ==
    { parsed.tokens[k].v : k \in { j \in 1..Len(parsed.tokens) : parsed.tokens[j].t = "Variable" } }

\* what the claim says of the parser's modes and of the tokens other than
\* the characters of a variable's name
ModesAndTokens ==
    /\ LiteralMode # VariableMode
    /\ parsed # NotParsed => parsed = FromStr(input)
    /\ ParsedOk =>
          /\ \A k \in 1..Len(parsed.tokens) :
                IF parsed.tokens[k].t = "String" THEN parsed.tokens[k].v # <<>>
                ELSE parsed.tokens[k].v # ""
          /\ \A k \in 1..(Len(parsed.tokens) - 1) :
                ~(parsed.tokens[k].t = "String" /\ parsed.tokens[k + 1].t = "String")

\* no variable of the template has a delimiter in its name
NoDelimiterInNames ==
    \A name \in ParsedNames : \A k \in 1..Len(name) : SubSeq(name, k, k) # ":"

(***************************************************************************)
(* C39: at every step of from_str exactly one of the two modes is active   *)
(* (so the last branch of from_str, which needs both start indices to be   *)
(* None, is never taken); in every template from_str returns no literal is *)
(* empty, no variable name is empty, no two literals are adjacent, and no  *)
(* variable name contains the delimiter ':', so that no template           *)
(* references the private variable ':file.path'.                           *)
(***************************************************************************)
C39_ModesTokensAndPrivateNames ==
    /\ ModesAndTokens
    /\ ParsedOk => NoDelimiterInNames /\ ":file.path" \notin ParsedNames

\* what holds: the modes, the tokens, and the names of the templates of
\* texts of one-byte characters
C39_ModesTokensAndAsciiNames ==
    /\ ModesAndTokens
    /\ (ParsedOk /\ Ascii(input)) => NoDelimiterInNames

\* a text was parsed to a template that references the private variable,
\* and the template renders to the canonical path of the source
C39_PrivateReferenced ==
    /\ ParsedOk
    /\ parsed.tokens = <<Str(<<TwoByteChar>>), Var(":file.path")>>
    /\ TemplateRender(parsed.tokens, PrepareTemplateContext(fs, PathA).ctx, fs).t = "Ok"
    /\ TemplateRender(parsed.tokens, PrepareTemplateContext(fs, PathA).ctx, fs).path
           = <<TwoByteChar>> \o PathWA

\* a variable whose name is the delimiter was parsed
C39_DelimiterName ==
    /\ ParsedOk
    /\ input = <<TwoByteChar, "x", ":", "y", ":">>
    /\ parsed.tokens = <<Str(<<TwoByteChar>>), Var(":")>>

\* a template of literals and variables was returned after the parser had
\* gone through both modes
C39_Parsed ==
    /\ ParsedOk
    /\ input = <<":", "x", ":", "/", ":", "y", ":">>
    /\ parsed.tokens = <<Var("x"), Str(<<"/">>), Var("y")>>
    /\ LiteralMode /\ ~VariableMode

====
